---- MODULE Spec2Model ----
(***************************************************************************)
(* A model of the dynamic HQL engine of helixdb-explorer:                  *)
(*   - the traversal resolver   (hql_translator.rs, resolve_traversal)     *)
(*   - the tool compiler        (hql_translator.rs, map_traversal_to_tools)*)
(*   - the pipeline executor    (hql_executor.rs,  execute_pipeline)       *)
(*   - the command              (commands/hql.rs,  execute_dynamic_hql)    *)
(*   - the result normalizer    (hql_translator.rs, normalize_value)       *)
(*                                                                         *)
(* Spec        : one evaluation of execute_dynamic_hql against a remote    *)
(*               that answers every call nondeterministically.             *)
(* SpecResolve : resolve_traversal applied to bounded assignment tables.   *)
(***************************************************************************)
EXTENDS Integers, Sequences, FiniteSets, TLC

VARIABLES
    pc,                     \* position of the single asynchronous task
    query,                  \* the parsed query (the parser is a black box)
    params_val,             \* the parameter map (name -> JSON value)
    variable_assignments,   \* name -> Traversal
    variable_search_tools,  \* name -> search tool
    return_vars,            \* variables still to evaluate, in evaluation order
    final_map,              \* name -> result
    var_name,               \* the variable being evaluated
    resolved,               \* result of resolve_traversal for var_name
    connection_id,          \* session of the current variable
    conn2,                  \* second session of two-pass execution
    compiled,               \* tools, final_action, id_filters of the variable
    tool_idx,               \* index of the next tool to dispatch
    prop_filter,            \* Option<ToolArgs>: the synthetic filter
    exec_result,            \* Result of the pipeline of the current variable
    outcome,                \* Result of execute_dynamic_hql
    calls,                  \* history: every remote call issued, in order
    evals,                  \* history: every finished pipeline evaluation
    next_conn               \* remote: number of sessions issued so far

vars == <<pc, query, params_val, variable_assignments, variable_search_tools,
          return_vars, final_map, var_name, resolved, connection_id, conn2,
          compiled, tool_idx, prop_filter, exec_result, outcome, calls, evals,
          next_conn>>

(***************************************************************************)
(* Bounds of the model.                                                    *)
(***************************************************************************)
MaxChain == 23      \* longest assignment chain (number of variables)
MaxVars  == 3       \* variables of the exhaustively enumerated tables
MaxArity == 3       \* sub-expressions of one AND / OR
MaxNest  == 2       \* nesting depth of AND / OR
MaxSteps == 3       \* steps of a compiled traversal
MaxIds   == 2       \* ids of a start node
UsizeBits == 16     \* width of the unsigned integers of the model (usize)
MaxFields == 2     \* fields of one JSON object
MaxJsonNest == 2   \* nesting depth of JSON objects

(***************************************************************************)
(* Program constants.                                                      *)
(***************************************************************************)
MaxDepth == 20      \* resolve_traversal_recursive: "if depth > 20"

(***************************************************************************)
(* Option<T> is a sequence of length at most one.                          *)
(***************************************************************************)
None == << >>
Some(x) == <<x>>
IsSome(o) == Len(o) = 1
IsNone(o) == Len(o) = 0

EmptyMap == [k \in {} |-> None]

(***************************************************************************)
(* The AST (helix_db::helixc::parser::types).                              *)
(***************************************************************************)
NodeStart(type, ids)   == [kind |-> "Node", type |-> type, ids |-> ids]
EdgeStart(type, ids)   == [kind |-> "Edge", type |-> type, ids |-> ids]
VectorStart(type, ids) == [kind |-> "Vector", type |-> type, ids |-> ids]
SearchVectorStart(sv)  == [kind |-> "SearchVector", sv |-> sv]
IdentifierStart(name)  == [kind |-> "Identifier", name |-> name]
AnonymousStart         == [kind |-> "Anonymous"]

Traversal(start, steps) == [start |-> start, steps |-> steps]

GraphStep(g, label) == [step |-> "Node", gs |-> [g |-> g, label |-> label]]

(***************************************************************************)
(* Traversal Resolver: hql_translator.rs, resolve_traversal_recursive.     *)
(* A result is Ok(Some(t)), Ok(None) or Err(e); "calls" counts the         *)
(* invocations of resolve_traversal_recursive that produced it.            *)
(***************************************************************************)
ResSome(t, n)  == [tag |-> "Some", t |-> t, calls |-> n]
ResNone(n)     == [tag |-> "None", calls |-> n]
ResErr(e, n)   == [tag |-> "Err", err |-> e, calls |-> n]

CircularDependency(name) == [kind |-> "CircularDependency", name |-> name]
VariableNotFound(name)   == [kind |-> "VariableNotFound", name |-> name]

\* A depth bound that is off by several levels.
depth_exceeded_late(depth) == depth > MaxDepth + 3

\* line 535: if depth > 20
depth_exceeded(depth) == depth > MaxDepth

\* A splice that appends the parent's steps after the variable's own.
splice_swapped(parent_t, own) ==
    Traversal(parent_t.start, own.steps \o parent_t.steps)

\* lines 550-553: all_steps = parent.steps ++ own.steps; start = parent.start
splice(parent_t, own) ==
    Traversal(parent_t.start, parent_t.steps \o own.steps)

\* A missing parent reported as an absent variable instead of an error.
missing_parent_silent(id, n) == ResNone(n)

\* line 548: .ok_or_else(|| format!("Variable '{}' not found", id))
missing_parent(id, n) == ResErr(VariableNotFound(id), n)

RECURSIVE resolve_traversal_recursive(_, _, _)
resolve_traversal_recursive(name, assignments, depth) ==
    IF depth_exceeded(depth)
    THEN ResErr(CircularDependency(name), 1)
    ELSE IF name \notin DOMAIN assignments
    THEN ResNone(1)
    ELSE LET t == assignments[name] IN
         IF t.start.kind = "Identifier"
         THEN LET id == t.start.name
                  parent == {resolve_traversal_recursive(id, assignments, depth + 1)}
                  with_parent(p) ==
                      CASE p.tag = "Err"  -> ResErr(p.err, p.calls + 1)
                        [] p.tag = "None" -> missing_parent(id, p.calls + 1)
                        [] p.tag = "Some" -> ResSome(splice(p.t, t), p.calls + 1)
              IN  CHOOSE r \in {with_parent(p) : p \in parent} : TRUE
         ELSE ResSome(t, 1)

\* A name without an assignment is an error at the top level too.
resolve_traversal_strict(name, assignments) ==
    IF name \notin DOMAIN assignments
    THEN ResErr(VariableNotFound(name), 1)
    ELSE resolve_traversal_recursive(name, assignments, 0)

\* lines 523-528
resolve_traversal(name, assignments) ==
    resolve_traversal_recursive(name, assignments, 0)

(***************************************************************************)
(* helix_db::protocol::value::Value and serde_json::Value.  Every variant  *)
(* has its own payload field, so two values of different variants are      *)
(* unequal records.  Integers of the model stay far inside the i32 range,  *)
(* on which the cast "as i32" is the identity.                             *)
(***************************************************************************)
VString(s)  == [vt |-> "String", s |-> s]
VI32(i)     == [vt |-> "I32", i |-> i]
VI64(i)     == [vt |-> "I64", i |-> i]
VF64(f)     == [vt |-> "F64", f |-> f]     \* the number f + 0.5
VBoolean(b) == [vt |-> "Boolean", b |-> b]

JNull     == [t |-> "null"]
JStr(s)   == [t |-> "str", s |-> s]
JInt(n)   == [t |-> "num", n |-> n]        \* as_i64() is Some(n)
JFloat(f) == [t |-> "num", f |-> f]        \* the number f + 0.5: as_i64() is None
JBool(b)  == [t |-> "bool", b |-> b]
JArr(a)   == [t |-> "arr", a |-> a]
JObj(o)   == [t |-> "obj", o |-> o]

IsJInt(v)   == v.t = "num" /\ "n" \in DOMAIN v
IsJFloat(v) == v.t = "num" /\ "f" \in DOMAIN v

\* serde_json::Map iterates in key order; the keys the model uses, sorted.
KeyOrder == <<"age", "count", "id", "in_edges", "label", "name", "out_edges",
              "properties", "tags", "vectors", "version">>

RECURSIVE JoinSeq(_, _)
JoinSeq(strs, sep) ==
    IF strs = << >> THEN ""
    ELSE IF Len(strs) = 1 THEN strs[1]
    ELSE strs[1] \o sep \o JoinSeq(Tail(strs), sep)

\* serde_json::Value::to_string (compact JSON text).
RECURSIVE json_to_string(_)
json_to_string(v) ==
    CASE v.t = "null" -> "null"
      [] v.t = "str"  -> "\"" \o v.s \o "\""
      [] v.t = "bool" -> IF v.b THEN "true" ELSE "false"
      [] IsJInt(v)    -> ToString(v.n)
      [] IsJFloat(v)  -> ToString(v.f) \o ".5"
      [] v.t = "arr"  ->
            "[" \o JoinSeq([i \in 1..Len(v.a) |-> json_to_string(v.a[i])], ",") \o "]"
      [] v.t = "obj"  ->
            LET keys == SelectSeq(KeyOrder, LAMBDA k : k \in DOMAIN v.o)
            IN  "{" \o JoinSeq([i \in 1..Len(keys) |->
                        "\"" \o keys[i] \o "\":" \o json_to_string(v.o[keys[i]])], ",")
                    \o "}"

\* val.as_str().unwrap_or(&val.to_string()).to_string()
json_as_str_or_text(v) == IF v.t = "str" THEN v.s ELSE json_to_string(v)

(***************************************************************************)
(* ToolArgs, FilterTraversal, FilterProperties (tool_args.rs).             *)
(***************************************************************************)
FilterProperties(key, value, operator) ==
    [key |-> key, value |-> value, operator |-> Some(operator)]
FilterTraversal(properties, filter_traversals) ==
    [properties |-> properties, filter_traversals |-> filter_traversals]
FilterDefault == FilterTraversal(None, None)

NFromType(node_type) == [tool |-> "n_from_type", node_type |-> node_type]
EFromType(edge_type) == [tool |-> "e_from_type", edge_type |-> edge_type]
OutStep(edge_label, filter) ==
    [tool |-> "out_step", edge_label |-> edge_label, edge_type |-> "node", filter |-> filter]
InStep(edge_label, filter) ==
    [tool |-> "in_step", edge_label |-> edge_label, edge_type |-> "node", filter |-> filter]
OutEStep(edge_label, filter) ==
    [tool |-> "out_e_step", edge_label |-> edge_label, filter |-> filter]
InEStep(edge_label, filter) ==
    [tool |-> "in_e_step", edge_label |-> edge_label, filter |-> filter]
FilterItems(filter) == [tool |-> "filter_items", filter |-> filter]
OrderByTool(properties, order) ==
    [tool |-> "order_by", properties |-> properties, order |-> order]
SearchKeyword(q, limit, label) ==
    [tool |-> "search_keyword", query |-> q, limit |-> limit, label |-> label]
SearchVecText(q, label, k) ==
    [tool |-> "search_vec_text", query |-> q, label |-> label, k |-> k]
SearchVec(vector, k) ==
    [tool |-> "search_vec", vector |-> vector, k |-> k, min_score |-> None, cutoff |-> None]

\* hql_translator.rs lines 12-18
Collect(range) == [action |-> "Collect", range |-> range]
Count == [action |-> "Count"]
Aggregate(properties) == [action |-> "Aggregate", properties |-> properties]
GroupBy(properties) == [action |-> "GroupBy", properties |-> properties]

Ok(v)  == [tag |-> "Ok", v |-> v]
Err(e) == [tag |-> "Err", err |-> e]
IsOk(r)  == r.tag = "Ok"
IsErr(r) == r.tag = "Err"

CompileError(msg) == [kind |-> "CompileError", msg |-> msg]

(***************************************************************************)
(* Value Extractor: hql_translator.rs, extract_value, extract_field_value. *)
(***************************************************************************)
\* lines 362-376 and 408-422: a parameter's JSON value as a Value
param_to_value(val) ==
    CASE val.t = "str"  -> VString(val.s)
      [] IsJInt(val)    -> VI32(val.n)
      [] IsJFloat(val)  -> VF64(val.f)
      [] val.t = "bool" -> VBoolean(val.b)
      [] OTHER          -> VString(json_to_string(val))

\* lines 355-383
extract_value(expr, params) ==
    CASE expr.expr = "StringLiteral"  -> Ok(VString(expr.s))
      [] expr.expr = "IntegerLiteral" -> Ok(VI32(expr.i))
      [] expr.expr = "FloatLiteral"   -> Ok(VF64(expr.f))
      [] expr.expr = "BooleanLiteral" -> Ok(VBoolean(expr.b))
      [] expr.expr = "Identifier"     ->
            IF expr.name \in DOMAIN params
            THEN Ok(param_to_value(params[expr.name]))
            ELSE Ok(VString(expr.name))
      [] OTHER -> Err(CompileError("Unsupported value type in WHERE comparison"))

\* lines 403-429
extract_field_value(fv, params) ==
    CASE fv.fv = "Literal"    -> Ok(fv.v)
      [] fv.fv = "Expression" -> extract_value(fv.expr, params)
      [] fv.fv = "Identifier" ->
            IF fv.name \in DOMAIN params
            THEN Ok(param_to_value(params[fv.name]))
            ELSE Ok(VString(fv.name))
      [] OTHER -> Err(CompileError("Unsupported field value type"))

\* lines 385-401: one AND-clause, one equality per field
RECURSIVE map_object_fields(_, _, _)
map_object_fields(fields, params, props) ==
    IF fields = << >> THEN Ok(props)
    ELSE LET value == extract_field_value(Head(fields).value, params)
         IN  IF IsErr(value) THEN value
             ELSE map_object_fields(Tail(fields), params,
                      Append(props, FilterProperties(Head(fields).key, value.v, "==")))

map_object_to_filter(obj, params) ==
    LET props == map_object_fields(obj.fields, params, << >>)
    IN  IF IsErr(props) THEN props
        ELSE Ok(FilterTraversal(Some(<<props.v>>), None))

\* A literal's text is a sequence of chunks, a quote being the chunk "\"".
RECURSIVE trim_start_quotes(_)
trim_start_quotes(chunks) ==
    IF chunks # << >> /\ Head(chunks) = "\"" THEN trim_start_quotes(Tail(chunks))
    ELSE chunks
RECURSIVE trim_end_quotes(_)
trim_end_quotes(chunks) ==
    IF chunks # << >> /\ chunks[Len(chunks)] = "\""
    THEN trim_end_quotes(SubSeq(chunks, 1, Len(chunks) - 1))
    ELSE chunks
\* value.trim_matches('"').to_string()
trim_matches_quote(chunks) ==
    JoinSeq(trim_end_quotes(trim_start_quotes(chunks)), "")

\* A missing parameter whose own name is taken as the id.
missing_id_param_as_name(name, acc) ==
    Ok([acc EXCEPT !.ids = Append(@, name)])

\* line 463
missing_id_param(name, acc) ==
    Err([kind |-> "MissingParameter", name |-> name])

\* lines 431-469
RECURSIVE extract_ids_loop(_, _, _)
extract_ids_loop(ids, params, acc) ==
    IF ids = << >> THEN Ok(acc)
    ELSE LET id == Head(ids)
             next ==
               CASE id.id = "Literal" ->
                      Ok([acc EXCEPT !.ids = Append(@, trim_matches_quote(id.value))])
                 [] id.id = "ByIndex" ->
                      IF id.index.id \notin {"Identifier", "Literal"}
                         \/ id.value.vtype = "Object"
                      THEN Ok(acc)
                      ELSE LET key == IF id.index.id = "Identifier"
                                      THEN id.index.name
                                      ELSE trim_matches_quote(id.index.value)
                               val == IF id.value.vtype = "Literal"
                                      THEN id.value.value
                                      ELSE VString(id.value.name)
                           IN  Ok([acc EXCEPT !.props =
                                      Append(@, FilterProperties(key, val, "=="))])
                 [] id.id = "Identifier" ->
                      IF id.name \in DOMAIN params
                      THEN Ok([acc EXCEPT !.ids =
                                  Append(@, json_as_str_or_text(params[id.name]))])
                      ELSE missing_id_param(id.name, acc)
         IN  IF IsErr(next) THEN next
             ELSE extract_ids_loop(Tail(ids), params, next.v)

extract_ids_and_props(ids, params) ==
    extract_ids_loop(ids, params, [ids |-> << >>, props |-> << >>])

\* lines 512-521
extract_property_from_traversal(t) ==
    IF Len(t.steps) = 1 /\ t.steps[1].step = "Object" /\ Len(t.steps[1].fields) = 1
    THEN Ok(t.steps[1].fields[1].key)
    ELSE Err(CompileError("Only simple property access like _::{prop} is supported here"))

\* lines 471-510
map_search_vector_to_tool(sv, params) ==
    LET label == IF IsSome(sv.vector_type) THEN sv.vector_type[1] ELSE ""
        k     == IF IsSome(sv.k) /\ sv.k[1].ntype \in {"I32", "I64"}
                 THEN sv.k[1].value ELSE 10
    IN  IF IsNone(sv.data) THEN Err(CompileError("Unsupported vector search data"))
        ELSE CASE sv.data[1].d = "Vector" -> Ok(SearchVec(sv.data[1].v, k))
               [] sv.data[1].d = "Embed"  ->
                    LET e == sv.data[1].value
                        q == IF e.stype = "StringLiteral" THEN e.s
                             ELSE IF e.s \in DOMAIN params
                                  THEN json_as_str_or_text(params[e.s])
                                  ELSE e.s
                    IN  Ok(SearchVecText(q, label, k))
               [] OTHER -> Err(CompileError("Unsupported vector search data"))

\* lines 20-40
map_bm25_to_tool(bm25) ==
    LET label == IF IsSome(bm25.type_arg) THEN bm25.type_arg[1] ELSE ""
        limit == IF IsSome(bm25.k) /\ bm25.k[1].ntype \in {"I32", "I64"}
                 THEN bm25.k[1].value ELSE 10
    IN  IF IsNone(bm25.data) THEN Err(CompileError("SearchBM25 requires a query string"))
        ELSE Ok(SearchKeyword(bm25.data[1], limit, label))

(***************************************************************************)
(* Filter Compiler: hql_translator.rs, map_expression_to_filter.           *)
(***************************************************************************)
\* The product with the clauses of the sub-expression outermost.
cross_product_inner_first(combined_dnf, sub_props) ==
    [idx \in 1..(Len(combined_dnf) * Len(sub_props)) |->
        combined_dnf[((idx - 1) % Len(combined_dnf)) + 1]
            \o sub_props[((idx - 1) \div Len(combined_dnf)) + 1]]

\* The clauses of the sub-expression appended instead of multiplied.
cross_product_appended(combined_dnf, sub_props) == combined_dnf \o sub_props

\* lines 239-247: every existing AND-clause extended by every clause of the
\* sub-expression, existing clauses outermost.
cross_product(combined_dnf, sub_props) ==
    [idx \in 1..(Len(combined_dnf) * Len(sub_props)) |->
        combined_dnf[((idx - 1) \div Len(sub_props)) + 1]
            \o sub_props[((idx - 1) % Len(sub_props)) + 1]]

\* lines 286-294
boolean_operator(op) ==
    CASE op = "Equal"              -> Some("==")
      [] op = "NotEqual"           -> Some("!=")
      [] op = "GreaterThan"        -> Some(">")
      [] op = "GreaterThanOrEqual" -> Some(">=")
      [] op = "LessThan"           -> Some("<")
      [] op = "LessThanOrEqual"    -> Some("<=")
      [] OTHER                     -> None

\* lines 281-307: _::{prop}::Op(value)
is_property_comparison(t) ==
    /\ Len(t.steps) >= 2
    /\ t.steps[1].step = "Object"
    /\ Len(t.steps[1].fields) = 1
    /\ t.steps[2].step = "BooleanOperation"

map_property_comparison(t, params) ==
    LET operator == boolean_operator(t.steps[2].op)
    IN  IF IsNone(operator)
        THEN Err(CompileError("Unsupported boolean operator in dynamic HQL"))
        ELSE LET value == extract_value(t.steps[2].e, params)
             IN  IF IsErr(value) THEN value
                 ELSE Ok(FilterTraversal(
                        Some(<< <<FilterProperties(t.steps[1].fields[1].key,
                                                   value.v, operator[1])>> >>),
                        None))

\* lines 310-346: Ok(None) for no steps, else one tool wrapping the rest
RECURSIVE map_steps_to_recursive_filter(_, _)
map_steps_to_recursive_filter(steps, params) ==
    IF steps = << >> THEN Ok(None)
    ELSE LET step == Head(steps) IN
         IF step.step \notin {"Node", "Edge"}
         THEN Err(CompileError("Unsupported step type in filter chain"))
         ELSE LET next_filter == map_steps_to_recursive_filter(Tail(steps), params)
              IN  IF IsErr(next_filter) THEN next_filter
                  ELSE CASE step.gs.g = "Out" ->
                              Ok(Some(FilterTraversal(None,
                                  Some(<<OutStep(step.gs.label, next_filter.v)>>))))
                         [] step.gs.g = "In" ->
                              Ok(Some(FilterTraversal(None,
                                  Some(<<InStep(step.gs.label, next_filter.v)>>))))
                         [] step.gs.g = "OutE" ->
                              Ok(Some(FilterTraversal(None,
                                  Some(<<OutEStep(step.gs.label, next_filter.v)>>))))
                         [] step.gs.g = "InE" ->
                              Ok(Some(FilterTraversal(None,
                                  Some(<<InEStep(step.gs.label, next_filter.v)>>))))
                         [] OTHER ->
                              Err(CompileError("Unsupported graph step in filter"))

RECURSIVE map_expression_to_filter(_, _)
RECURSIVE map_and_loop(_, _, _)
RECURSIVE map_or_loop(_, _, _)

\* lines 236-249: the loop of the And arm
map_and_loop(exprs, params, combined_dnf) ==
    IF exprs = << >> THEN Ok(FilterTraversal(Some(combined_dnf), None))
    ELSE LET sub_filter == map_expression_to_filter(Head(exprs), params)
         IN  IF IsErr(sub_filter) THEN sub_filter
             ELSE map_and_loop(Tail(exprs), params,
                      IF IsSome(sub_filter.v.properties)
                      THEN cross_product(combined_dnf, sub_filter.v.properties[1])
                      ELSE combined_dnf)

\* lines 257-262: the loop of the Or arm
map_or_loop(exprs, params, combined_dnf) ==
    IF exprs = << >> THEN Ok(FilterTraversal(Some(combined_dnf), None))
    ELSE LET sub_filter == map_expression_to_filter(Head(exprs), params)
         IN  IF IsErr(sub_filter) THEN sub_filter
             ELSE map_or_loop(Tail(exprs), params,
                      IF IsSome(sub_filter.v.properties)
                      THEN combined_dnf \o sub_filter.v.properties[1]
                      ELSE combined_dnf)

\* lines 231-353
map_expression_to_filter(expr, params) ==
    CASE expr.expr = "And" -> map_and_loop(expr.exprs, params, << << >> >>)
      [] expr.expr = "Or"  -> map_or_loop(expr.exprs, params, << >>)
      [] expr.expr = "Traversal" ->
            LET t == expr.t IN
            IF t.start.kind # "Anonymous"
            THEN Err(CompileError("WHERE clause traversal must start with anonymous node (_)"))
            ELSE IF t.steps = << >>
            THEN Err(CompileError("WHERE clause traversal too short"))
            ELSE IF is_property_comparison(t)
            THEN map_property_comparison(t, params)
            ELSE LET f == map_steps_to_recursive_filter(t.steps, params)
                 IN  IF IsErr(f) THEN f
                     ELSE Ok(IF IsSome(f.v) THEN f.v[1] ELSE FilterDefault)
      [] OTHER -> Err(CompileError("Unsupported expression type in WHERE"))

(***************************************************************************)
(* Tool Compiler: hql_translator.rs, map_traversal_to_tools.               *)
(***************************************************************************)
CompileState(tools, final_action, id_filters) ==
    [tools |-> tools, final_action |-> final_action, id_filters |-> id_filters]

\* lines 50-95: the scan tool, the raw id filters, the indexed-lookup filter
map_typed_start(scan, ids, params) ==
    LET r == extract_ids_and_props(ids, params)
    IN  IF IsErr(r) THEN r
        ELSE Ok(CompileState(
                 IF r.v.props # << >>
                 THEN <<scan, FilterItems(FilterTraversal(Some(<<r.v.props>>), None))>>
                 ELSE <<scan>>,
                 Collect(None),
                 r.v.ids))

\* lines 49-102
map_start_node(start, params) ==
    CASE start.kind = "Node" ->
            map_typed_start(NFromType(start.type), start.ids, params)
      [] start.kind = "Edge" ->
            map_typed_start(EFromType(start.type), start.ids, params)
      [] start.kind = "Vector" ->
            map_typed_start(NFromType(start.type), start.ids, params)
      [] start.kind = "SearchVector" ->
            LET tool == map_search_vector_to_tool(start.sv, params)
            IN  IF IsErr(tool) THEN tool
                ELSE Ok(CompileState(<<tool.v>>, Collect(None), << >>))
      [] start.kind \in {"Identifier", "Anonymous"} ->
            Ok(CompileState(<< >>, Collect(None), << >>))

\* A reverse scan that does not skip FilterItems tools.
fusion_index_last(tools) == Len(tools)

\* A FromN / ToN step that is dropped when no edge tool precedes it.
fuse_from_n_lenient(tools) ==
    LET edges == {j \in 1..Len(tools) : tools[j].tool \in {"out_e_step", "in_e_step"}}
    IN  IF edges = {} THEN Ok(tools)
        ELSE LET j == CHOOSE j \in edges : \A k \in edges : k <= j
             IN  Ok([tools EXCEPT ![j] =
                        IF tools[j].tool = "out_e_step"
                        THEN OutStep(tools[j].edge_label, tools[j].filter)
                        ELSE InStep(tools[j].edge_label, tools[j].filter)])

\* lines 141-164: the index of the tool the reverse scan stops at (0: none)
fusion_index(tools) ==
    LET stops == {j \in 1..Len(tools) : tools[j].tool # "filter_items"}
    IN  IF stops = {} THEN 0
        ELSE CHOOSE j \in stops : \A k \in stops : k <= j

\* lines 138-168
fuse_from_n(tools) ==
    LET j == fusion_index(tools)
    IN  IF j > 0 /\ tools[j].tool = "out_e_step"
        THEN Ok([tools EXCEPT ![j] = OutStep(tools[j].edge_label, tools[j].filter)])
        ELSE IF j > 0 /\ tools[j].tool = "in_e_step"
        THEN Ok([tools EXCEPT ![j] = InStep(tools[j].edge_label, tools[j].filter)])
        ELSE Err([kind |-> "CompileError",
                  msg |-> "::ToN or ::FromN must follow an edge traversal step (like ::OutE or ::InE)"])

\* lines 107-171: a graph step
map_graph_step(gs, params, tools) ==
    CASE gs.g = "Out"  -> Ok(Append(tools, OutStep(gs.label, None)))
      [] gs.g = "In"   -> Ok(Append(tools, InStep(gs.label, None)))
      [] gs.g = "OutE" -> Ok(Append(tools, OutEStep(gs.label, None)))
      [] gs.g = "InE"  -> Ok(Append(tools, InEStep(gs.label, None)))
      [] gs.g = "SearchVector" ->
            LET tool == map_search_vector_to_tool(gs.sv, params)
            IN  IF IsErr(tool) THEN tool ELSE Ok(Append(tools, tool.v))
      [] gs.g \in {"FromN", "ToN"} -> fuse_from_n(tools)
      [] OTHER -> Ok(tools)

\* A range bound taken without the cast to an unsigned integer.
as_usize_signed(val) == val

\* lines 206-207, 211-212: val as usize (two's complement, UsizeBits wide)
as_usize(val) == val % (2 ^ UsizeBits)

\* lines 204-216
map_range(step, params) ==
    LET s == extract_value(step.start, params)
        e == extract_value(step.end, params)
    IN  IF IsErr(s) THEN s
        ELSE IF IsErr(e) THEN e
        ELSE Ok(Collect(Some(<<IF s.v.vt \in {"I32", "I64"} THEN as_usize(s.v.i) ELSE 0,
                               IF e.v.vt \in {"I32", "I64"}
                               THEN Some(as_usize(e.v.i)) ELSE None>>)))

\* An ORDER BY step that emits no tool.
map_order_by_silent(step, tools) == Ok(tools)

\* lines 176-190
map_order_by(step, tools) ==
    LET property ==
            CASE step.expression.expr = "Identifier" -> Ok(step.expression.name)
              [] step.expression.expr = "Traversal"  ->
                    extract_property_from_traversal(step.expression.t)
              [] OTHER ->
                    Err(CompileError("ORDER BY currently only supports simple identifiers or _::{prop}"))
    IN  IF IsErr(property) THEN property
        ELSE Ok(Append(tools, OrderByTool(property.v, step.order)))

\* An unsupported step that is skipped instead of rejected.
unsupported_step_skipped(i, step, st) == Ok(st)

\* line 224
unsupported_step(i, step, st) ==
    Err([kind |-> "UnsupportedStep", index |-> i, step |-> step.step])

\* lines 106-225: one iteration of the step loop (i is the 0-based index)
map_step(i, step, params, st) ==
    CASE step.step \in {"Node", "Edge"} ->
            LET r == map_graph_step(step.gs, params, st.tools)
            IN  IF IsErr(r) THEN r ELSE Ok([st EXCEPT !.tools = r.v])
      [] step.step = "Where" ->
            LET filter == map_expression_to_filter(step.expr, params)
            IN  IF IsErr(filter) THEN filter
                ELSE Ok([st EXCEPT !.tools = Append(@, FilterItems(filter.v))])
      [] step.step = "OrderBy" ->
            LET r == map_order_by(step, st.tools)
            IN  IF IsErr(r) THEN r ELSE Ok([st EXCEPT !.tools = r.v])
      [] step.step = "Count" -> Ok([st EXCEPT !.final_action = Count])
      [] step.step = "Aggregate" ->
            Ok([st EXCEPT !.final_action = Aggregate(step.properties)])
      [] step.step = "GroupBy" ->
            Ok([st EXCEPT !.final_action = GroupBy(step.properties)])
      [] step.step = "Range" ->
            LET r == map_range(step, params)
            IN  IF IsErr(r) THEN r ELSE Ok([st EXCEPT !.final_action = r.v])
      [] step.step = "First" ->
            Ok([st EXCEPT !.final_action = Collect(Some(<<0, Some(1)>>))])
      [] step.step = "Object" ->
            LET filter == map_object_to_filter(step, params)
            IN  IF IsErr(filter) THEN filter
                ELSE Ok([st EXCEPT !.tools = Append(@, FilterItems(filter.v))])
      [] OTHER -> unsupported_step(i, step, st)

RECURSIVE map_steps_loop(_, _, _, _)
map_steps_loop(steps, i, params, st) ==
    IF i >= Len(steps) THEN Ok(st)
    ELSE LET r == map_step(i, steps[i + 1], params, st)
         IN  IF IsErr(r) THEN r
             ELSE map_steps_loop(steps, i + 1, params, r.v)

\* lines 42-229
map_traversal_to_tools(traversal, params) ==
    LET st == map_start_node(traversal.start, params)
    IN  IF IsErr(st) THEN st
        ELSE map_steps_loop(traversal.steps, 0, params, st.v)

(***************************************************************************)
(* Result Normalizer: hql_translator.rs, normalize_value.                  *)
(***************************************************************************)
MapWithout(map, keys) == [k \in DOMAIN map \ keys |-> map[k]]
MapInsert(map, key, value) ==
    [k \in DOMAIN map \cup {key} |-> IF k = key THEN value ELSE map[k]]

\* lines 559-583
RECURSIVE normalize_value(_)
normalize_value(v) ==
    CASE v.t = "arr" -> JArr([i \in 1..Len(v.a) |-> normalize_value(v.a[i])])
      [] v.t = "obj" ->
            LET removed  == MapWithout(v.o, {"properties"})
                props    == IF "properties" \in DOMAIN v.o /\ v.o["properties"].t = "obj"
                            THEN v.o["properties"].o
                            ELSE EmptyMap
                merged   == [k \in DOMAIN removed \cup DOMAIN props |->
                                IF k \in DOMAIN props THEN props[k] ELSE removed[k]]
                stripped == MapWithout(merged,
                                {"out_edges", "in_edges", "vectors", "version"})
            IN  JObj([k \in DOMAIN stripped |-> normalize_value(stripped[k])])
      [] OTHER -> v

(***************************************************************************)
(* Pipeline Executor, the local parts: hql_executor.rs.                    *)
(***************************************************************************)
\* lines 157-161: the closure of filter_by_ids
id_matches(item, ids) ==
    /\ item.t = "obj"
    /\ "id" \in DOMAIN item.o
    /\ item.o["id"].t = "str"
    /\ \E i \in 1..Len(ids) : ids[i] = item.o["id"].s

\* lines 154-166
filter_by_ids(value, ids) ==
    IF value.t = "arr"
    THEN JArr(SelectSeq(value.a, LAMBDA item : id_matches(item, ids)))
    ELSE value

\* lines 34-43: the scalar of a field, if it has one
field_scalar(v) ==
    CASE v.t = "str"  -> Some(VString(v.s))
      [] IsJInt(v)    -> Some(VI64(v.n))
      [] IsJFloat(v)  -> Some(VF64(v.f))
      [] v.t = "bool" -> Some(VBoolean(v.b))
      [] OTHER        -> None

\* lines 30-60: the synthetic property filter built from one item
synthetic_filter(item) ==
    IF item.t # "obj" THEN None
    ELSE LET keys  == SelectSeq(KeyOrder, LAMBDA k :
                          /\ k \in DOMAIN item.o
                          /\ k \notin {"id", "label", "version"}
                          /\ IsSome(field_scalar(item.o[k])))
             props == [i \in 1..Len(keys) |->
                          FilterProperties(keys[i], field_scalar(item.o[keys[i]])[1], "==")]
         IN  IF props # << >>
             THEN Some(FilterItems(FilterTraversal(Some(<<props>>), None)))
             ELSE None

\* line 96
is_search(tool) ==
    tool.tool \in {"search_keyword", "search_vec", "search_vec_text"}

\* lines 18-20: two-pass execution is chosen
two_pass(c) == c.id_filters # << >> /\ Len(c.tools) > 1

(***************************************************************************)
(* execute_dynamic_hql, the local parts: commands/hql.rs.                  *)
(***************************************************************************)
Implicit == "_implicit_"

ReadOnlyError == [kind |-> "ReadOnly"]

\* lines 7-19
RECURSIVE expression_to_json(_)
expression_to_json(expr) ==
    CASE expr.expr = "StringLiteral"  -> Some(JStr(expr.s))
      [] expr.expr = "IntegerLiteral" -> Some(JInt(expr.i))
      [] expr.expr = "FloatLiteral"   -> Some(JFloat(expr.f))
      [] expr.expr = "BooleanLiteral" -> Some(JBool(expr.b))
      [] expr.expr = "ArrayLiteral"   ->
            LET vals == [i \in 1..Len(expr.arr) |-> expression_to_json(expr.arr[i])]
                kept == SelectSeq(vals, LAMBDA o : IsSome(o))
            IN  Some(JArr([i \in 1..Len(kept) |-> kept[i][1]]))
      [] OTHER -> None

IsWriteExpr(expr) == expr.expr \in {"AddNode", "AddEdge", "AddVector"}

\* The state of the statement loop.
StmtState(assignments, search_tools, rets, params) ==
    [variable_assignments |-> assignments, variable_search_tools |-> search_tools,
     return_vars |-> rets, params_val |-> params]

\* lines 59-105: an assignment statement
process_assignment(assign, st) ==
    LET val == expression_to_json(assign.value)
        p   == IF IsSome(val)
               THEN MapInsert(st.params_val, assign.variable, val[1])
               ELSE st.params_val
        e   == assign.value
    IN  CASE e.expr = "Traversal" ->
                Ok([st EXCEPT !.params_val = p,
                              !.variable_assignments = MapInsert(@, assign.variable, e.t)])
          [] IsWriteExpr(e) -> Err(ReadOnlyError)
          [] e.expr = "BM25Search" ->
                LET tool == map_bm25_to_tool(e.bm25)
                IN  IF IsErr(tool) THEN tool
                    ELSE Ok([st EXCEPT !.params_val = p,
                                !.variable_search_tools = MapInsert(@, assign.variable, tool.v)])
          [] e.expr = "SearchVector" ->
                LET tool == map_search_vector_to_tool(e.sv, p)
                IN  IF IsErr(tool) THEN tool
                    ELSE Ok([st EXCEPT !.params_val = p,
                                !.variable_search_tools = MapInsert(@, assign.variable, tool.v)])
          [] OTHER -> Ok([st EXCEPT !.params_val = p])

\* lines 106-126: an expression statement
process_expression(e, st) ==
    CASE e.expr = "Traversal" ->
            Ok([st EXCEPT !.variable_assignments = MapInsert(@, Implicit, e.t)])
      [] IsWriteExpr(e) -> Err(ReadOnlyError)
      [] e.expr = "BM25Search" ->
            LET tool == map_bm25_to_tool(e.bm25)
            IN  IF IsErr(tool) THEN tool
                ELSE Ok([st EXCEPT !.variable_search_tools = MapInsert(@, Implicit, tool.v),
                                   !.return_vars = Append(@, Implicit)])
      [] e.expr = "SearchVector" ->
            LET tool == map_search_vector_to_tool(e.sv, st.params_val)
            IN  IF IsErr(tool) THEN tool
                ELSE Ok([st EXCEPT !.variable_search_tools = MapInsert(@, Implicit, tool.v),
                                   !.return_vars = Append(@, Implicit)])
      [] OTHER -> Ok(st)

\* lines 57-131
RECURSIVE process_statements(_, _)
process_statements(stmts, st) ==
    IF stmts = << >> THEN Ok(st)
    ELSE LET stmt == Head(stmts)
             r == CASE stmt.stmt = "Assignment" -> process_assignment(stmt, st)
                    [] stmt.stmt = "Expression" -> process_expression(stmt.expr, st)
                    [] stmt.stmt \in {"Drop", "ForLoop"} -> Err(ReadOnlyError)
         IN  IF IsErr(r) THEN r ELSE process_statements(Tail(stmts), r.v)

\* lines 136-151: the identifiers of one RETURN value
returned_identifiers(ret) ==
    CASE ret.ret = "Expression" ->
            IF ret.expr.expr = "Identifier" THEN <<ret.expr.name>> ELSE << >>
      [] ret.ret = "Array" ->
            LET ids == SelectSeq(ret.rets, LAMBDA r :
                          r.ret = "Expression" /\ r.expr.expr = "Identifier")
            IN  [i \in 1..Len(ids) |-> ids[i].expr.name]
      [] OTHER -> << >>

RECURSIVE collect_returns(_)
collect_returns(rets) ==
    IF rets = << >> THEN << >>
    ELSE returned_identifiers(Head(rets)) \o collect_returns(Tail(rets))

\* lines 133-163
compute_return_vars(q, st) ==
    IF q.return_values # << >>
    THEN st.return_vars \o collect_returns(q.return_values)
    ELSE IF Implicit \in DOMAIN st.variable_assignments
    THEN Append(st.return_vars, Implicit)
    ELSE IF Implicit \in DOMAIN st.variable_search_tools
    THEN Append(st.return_vars, Implicit)
    ELSE IF /\ st.return_vars = << >>
            /\ (DOMAIN st.variable_assignments # {} \/ DOMAIN st.variable_search_tools # {})
            /\ q.statements # << >>
            /\ q.statements[Len(q.statements)].stmt = "Assignment"
    THEN Append(st.return_vars, q.statements[Len(q.statements)].variable)
    ELSE st.return_vars

\* lines 51-167: everything before the first remote call
analyze(q, params) ==
    LET r == process_statements(q.statements,
                 StmtState(EmptyMap, EmptyMap, << >>, params))
    IN  IF IsErr(r) THEN r
        ELSE LET rets == compute_return_vars(q, r.v)
             IN  IF rets = << >>
                 THEN Err([kind |-> "NothingToExecute"])
                 ELSE Ok([r.v EXCEPT !.return_vars = rets])

\* line 176 without its conditions: the compiled query is always tried
fast_path_always(q) == TRUE

\* line 176
fast_path_eligible(q) == q.name # "ExplorerTmp" /\ q.parameters # << >>

(***************************************************************************)
(* The remote API.  A response is a transport failure (send() returned     *)
(* Err) or an HTTP response with a status and a body; a body carries its   *)
(* text and, when the text is JSON, the value it parses to.                *)
(*                                                                         *)
(* The remote issues a fresh session id on every successful init, and a    *)
(* call that names a session it never issued does not succeed.             *)
(***************************************************************************)
Body(text, json) == [text |-> text, json |-> json]
Response(status, body) == [sent |-> TRUE, status |-> status, body |-> body]
TransportFailure == [sent |-> FALSE, status |-> "", body |-> Body("", None)]

is_success(resp) == resp.sent /\ resp.status = "200"

PlainBody  == Body("upstream unavailable", None)
QuotedBody == Body("\"busy\"", Some(JStr("busy")))

HttpFailures == {Response(s, b) : s \in {"404", "500"}, b \in {PlainBody, QuotedBody}}
Failures == {TransportFailure} \cup HttpFailures

ConnId(n) == "conn-" \o ToString(n)
RemoteKnows(conn) == \E n \in 1..next_conn : ConnId(n) = conn

ItemAlice ==
    JObj([k \in {"id", "label", "name", "version", "properties"} |->
            CASE k = "id" -> JStr("u1") [] k = "label" -> JStr("User")
              [] k = "name" -> JStr("alice") [] k = "version" -> JInt(1)
              [] k = "properties" -> JObj([p \in {"age"} |-> JInt(30)])])
ItemBob ==
    JObj([k \in {"id", "label", "name"} |->
            CASE k = "id" -> JStr("u2") [] k = "label" -> JStr("User")
              [] k = "name" -> JStr("bob")])
ItemBare ==
    JObj([k \in {"id", "label", "tags"} |->
            CASE k = "id" -> JStr("u1") [] k = "label" -> JStr("User")
              [] k = "tags" -> JArr(<<JStr("x")>>)])
ItemNumId ==
    JObj([k \in {"id", "name"} |->
            CASE k = "id" -> JInt(7) [] k = "name" -> JStr("carol")])

\* What a terminal call may return on success.
ResultPool ==
    { JArr(<< >>), JArr(<<ItemAlice>>), JArr(<<ItemBob>>), JArr(<<ItemBare>>),
      JArr(<<ItemBob, ItemAlice>>), JArr(<<ItemBare, ItemNumId, ItemAlice>>),
      JObj([k \in {"count"} |-> JInt(2)]) }

ToolResponses(conn) ==
    Failures \cup (IF RemoteKnows(conn) THEN {Response("200", Body("null", Some(JNull)))}
                   ELSE {})
TerminalResponses(conn) ==
    Failures \cup (IF RemoteKnows(conn)
                   THEN {Response("200", Body(json_to_string(v), Some(v))) : v \in ResultPool}
                          \cup {Response("200", Body("<html>", None))}
                   ELSE {})
InitResponses ==
    Failures \cup {Response("200", Body("\"" \o ConnId(next_conn + 1) \o "\"",
                                      Some(JStr(ConnId(next_conn + 1))))),
                   Response("200", Body("<html>", None))}
FastPathResponses ==
    Failures \cup {Response("200", Body(json_to_string(v), Some(v))) :
                      v \in {JArr(<<ItemAlice>>)}}
             \cup {Response("200", Body("<html>", None))}

\* An error built from a request: the text prefix and what of the response
\* the message carries.
RequestError(msg, status, body) ==
    [kind |-> "TransportError", msg |-> msg, status |-> status, body |-> body]

\* One entry of the call history; ev is the ordinal of the evaluation the
\* call belongs to (0: none, the compiled-query fast path).
Call(op, conn, payload, ev, resp) ==
    [op |-> op, conn |-> conn, payload |-> payload, ev |-> ev, resp |-> resp]

CurrentEval == Len(evals) + 1

(***************************************************************************)
(* hql_executor.rs: the remote calls.                                      *)
(***************************************************************************)
\* lines 99-104 and 112: the endpoint of a tool
tool_endpoint(tool) ==
    CASE tool.tool = "search_keyword"  -> "search_keyword"
      [] tool.tool = "search_vec"      -> "search_vector"
      [] tool.tool = "search_vec_text" -> "search_vector_text"
      [] OTHER                         -> "tool_call"

\* lines 95-119: the result of send_tool for a response
send_tool_result(tool, resp) ==
    IF ~resp.sent
    THEN Err(RequestError(IF is_search(tool) THEN "Search call failed"
                          ELSE "Tool call failed", None, None))
    ELSE IF ~is_success(resp)
    THEN Err(RequestError(IF is_search(tool) THEN "Search error" ELSE "Tool call error",
                          Some(resp.status), Some(resp.body.text)))
    ELSE Ok(JNull)

\* lines 142-152: the result of collect_results for a response
collect_result(resp) ==
    IF ~resp.sent THEN Err(RequestError("Collect failed", None, None))
    ELSE IF is_success(resp)
    THEN IF IsSome(resp.body.json) THEN Ok(resp.body.json[1])
         ELSE Err(RequestError("Failed to parse results", None, None))
    ELSE Err(RequestError("Query execution error",
                          Some(resp.status), Some(resp.body.text)))

\* lines 124-138: the result of an aggregate_by / group_by call
reduce_result(name, resp) ==
    IF ~resp.sent THEN Err(RequestError(name \o " failed", None, None))
    ELSE IF is_success(resp)
    THEN IF IsSome(resp.body.json) THEN Ok(resp.body.json[1])
         ELSE Err(RequestError("error decoding response body", None, None))
    ELSE Err(RequestError(name \o " error", Some(resp.status), None))

\* lines 143-147: the payload of a collect call
collect_payload(range) == [range |-> range, drop |-> TRUE]

\* lines 121-140: endpoint and payload of the final action
final_endpoint(action) ==
    CASE action.action = "Collect" -> "collect"
      [] action.action \in {"Count", "Aggregate"} -> "aggregate_by"
      [] action.action = "GroupBy" -> "group_by"
final_payload(action) ==
    CASE action.action = "Collect" -> collect_payload(action.range)
      [] action.action = "Count" -> [properties |-> << >>, drop |-> TRUE]
      [] OTHER -> [properties |-> action.properties, drop |-> TRUE]
final_result(action, resp) ==
    CASE action.action = "Collect" -> collect_result(resp)
      [] action.action = "Count" -> reduce_result("Count", resp)
      [] action.action = "Aggregate" -> reduce_result("Aggregate", resp)
      [] action.action = "GroupBy" -> reduce_result("GroupBy", resp)

(***************************************************************************)
(* Inputs of Spec: parsed queries with their parameter objects.            *)
(***************************************************************************)
LiteralId(s)     == [id |-> "Literal", value |-> <<"\"", s, "\"">>]
IdentifierId(s)  == [id |-> "Identifier", name |-> s]
ByIndexId(key, v) ==
    [id |-> "ByIndex", index |-> [id |-> "Identifier", name |-> key],
     value |-> [vtype |-> "Literal", value |-> v]]

StringLiteral(s)  == [expr |-> "StringLiteral", s |-> s]
IntegerLiteral(i) == [expr |-> "IntegerLiteral", i |-> i]
Identifier(s)     == [expr |-> "Identifier", name |-> s]
TraversalExpr(t)  == [expr |-> "Traversal", t |-> t]
AddNode           == [expr |-> "AddNode"]
AddEdge           == [expr |-> "AddEdge"]
BM25Search(type, text, k) ==
    [expr |-> "BM25Search",
     bm25 |-> [type_arg |-> Some(type), data |-> Some(text),
               k |-> Some([ntype |-> "I32", value |-> k])]]

ObjectStep(fields) == [step |-> "Object", fields |-> fields]
Field(key)         == [key |-> key, value |-> [fv |-> "Empty"]]
BooleanOperation(op, e) == [step |-> "BooleanOperation", op |-> op, e |-> e]
Where(expr)  == [step |-> "Where", expr |-> expr]
CountStep    == [step |-> "Count"]
GroupByStep(props) == [step |-> "GroupBy", properties |-> props]
UpdateStep   == [step |-> "Update"]
Compare(key, op, e) ==
    TraversalExpr(Traversal(AnonymousStart,
        <<ObjectStep(<<Field(key)>>), BooleanOperation(op, e)>>))

Assignment(variable, value) ==
    [stmt |-> "Assignment", variable |-> variable, value |-> value]
ExpressionStmt(expr) == [stmt |-> "Expression", expr |-> expr]
DropStmt    == [stmt |-> "Drop"]
ForLoopStmt == [stmt |-> "ForLoop"]
Return(name) == [ret |-> "Expression", expr |-> Identifier(name)]

Query(name, parameters, statements, return_values) ==
    [name |-> name, parameters |-> parameters, statements |-> statements,
     return_values |-> return_values]
Input(q, params) == [query |-> q, params |-> params]

NoParams == [k \in {} |-> JNull]
IdParam  == [k \in {"id"} |-> JStr("u1")]

TScan       == Traversal(NodeStart("User", << >>), << >>)
TWhere      == Traversal(NodeStart("User", << >>),
                   <<Where(Compare("age", "GreaterThan", IntegerLiteral(50)))>>)
TId         == Traversal(NodeStart("User", <<LiteralId("u1")>>), << >>)
TIdOut      == Traversal(NodeStart("User", <<LiteralId("u1")>>),
                   <<GraphStep("Out", "Follows")>>)
TIdCount    == Traversal(NodeStart("User", <<LiteralId("u1")>>), <<CountStep>>)
TIdIndexed  == Traversal(NodeStart("User", <<ByIndexId("name", VString("alice")),
                                             LiteralId("u1")>>),
                   <<GraphStep("OutE", "Likes"), GraphStep("ToN", "")>>)
TParamOut   == Traversal(NodeStart("User", <<IdentifierId("id")>>),
                   <<GraphStep("Out", "Follows")>>)
TFromN      == Traversal(NodeStart("User", << >>), <<GraphStep("FromN", "")>>)
TUpdate     == Traversal(NodeStart("User", << >>), <<UpdateStep>>)
TGroup      == Traversal(NodeStart("User", << >>), <<GroupByStep(<<"age">>)>>)
TChild(parent, steps) == Traversal(IdentifierStart(parent), steps)

Tmp(statements, return_values) ==
    Input(Query("ExplorerTmp", << >>, statements, return_values), NoParams)

Inputs ==
    { \* read-only queries
      Tmp(<<Assignment("u", TraversalExpr(TScan))>>, <<Return("u")>>),
      Tmp(<<Assignment("u", TraversalExpr(TWhere))>>, << >>),
      Tmp(<<ExpressionStmt(TraversalExpr(TId))>>, << >>),
      Tmp(<<ExpressionStmt(TraversalExpr(TIdCount))>>, << >>),
      Tmp(<<Assignment("u", TraversalExpr(TIdOut))>>, <<Return("u")>>),
      Tmp(<<Assignment("u", TraversalExpr(TIdIndexed))>>, <<Return("u")>>),
      Tmp(<<Assignment("g", TraversalExpr(TGroup))>>, <<Return("g")>>),
      Tmp(<<Assignment("a", TraversalExpr(TId)),
            Assignment("b", TraversalExpr(TChild("a",
                <<GraphStep("Out", "Follows"), CountStep>>)))>>,
          <<Return("a"), Return("b")>>),
      Tmp(<<Assignment("id", StringLiteral("u1")),
            Assignment("u", TraversalExpr(TParamOut))>>, <<Return("u")>>),
      Tmp(<<Assignment("r", BM25Search("Post", "graph", 5))>>, <<Return("r")>>),
      Tmp(<<Assignment("a", TraversalExpr(TScan)),
            ExpressionStmt(BM25Search("Post", "graph", 5))>>, <<Return("a")>>),
      Tmp(<<Assignment("a", TraversalExpr(TWhere))>>,
          <<Return("a"), Return("ghost")>>),
      \* compiled-query fast path
      Input(Query("getFollowed", <<"id">>,
                  <<Assignment("u", TraversalExpr(TParamOut))>>, <<Return("u")>>),
            IdParam),
      Input(Query("getFollowed", <<"id">>,
                  <<Assignment("u", TraversalExpr(TParamOut))>>, <<Return("u")>>),
            NoParams),
      \* write constructs
      Tmp(<<ExpressionStmt(AddNode)>>, << >>),
      Tmp(<<Assignment("a", TraversalExpr(TScan)), Assignment("x", AddEdge)>>,
          <<Return("a")>>),
      Tmp(<<Assignment("a", TraversalExpr(TScan)), DropStmt>>, <<Return("a")>>),
      Tmp(<<ForLoopStmt>>, << >>),
      Tmp(<<Assignment("u", TraversalExpr(TUpdate))>>, <<Return("u")>>),
      Tmp(<<Assignment("u", TraversalExpr(TUpdate)),
            Assignment("v", TraversalExpr(TScan))>>, <<Return("v")>>),
      Input(Query("touch", <<"id">>,
                  <<Assignment("u", TraversalExpr(TUpdate))>>, <<Return("u")>>),
            IdParam),
      \* queries that do not compile or resolve
      Tmp(<<Assignment("u", TraversalExpr(TFromN))>>, <<Return("u")>>),
      Tmp(<<Assignment("a", TraversalExpr(TScan)),
            Assignment("b", TraversalExpr(TChild("zz", <<GraphStep("Out", "Follows")>>)))>>,
          <<Return("a"), Return("b")>>),
      Tmp(<<Assignment("a", TraversalExpr(TChild("b", <<GraphStep("Out", "Follows")>>))),
            Assignment("b", TraversalExpr(TChild("a", <<GraphStep("In", "Follows")>>)))>>,
          <<Return("a")>>),
      Tmp(<<Assignment("n", IntegerLiteral(5))>>, << >>) }

\* The value of a local that is not in scope.
Idle == [tag |-> "Idle"]

(***************************************************************************)
(* Spec: one evaluation of execute_dynamic_hql.  Every action is the code  *)
(* from one await to the next.                                             *)
(***************************************************************************)
Init ==
    /\ pc = "start"
    /\ \E input \in Inputs :
          /\ query = input.query
          /\ params_val = input.params
    /\ variable_assignments = EmptyMap
    /\ variable_search_tools = EmptyMap
    /\ return_vars = << >>
    /\ final_map = EmptyMap
    /\ var_name = ""
    /\ resolved = Idle
    /\ connection_id = ""
    /\ conn2 = ""
    /\ compiled = Idle
    /\ tool_idx = 0
    /\ prop_filter = None
    /\ exec_result = Idle
    /\ outcome = Idle
    /\ calls = << >>
    /\ evals = << >>
    /\ next_conn = 0

\* execute_pipeline returns r: Err ends the command (the ? of line 234).
PipelineReturn(r, c) ==
    /\ evals' = Append(evals, [var |-> var_name, conn |-> connection_id,
                               conn2 |-> conn2, compiled |-> c,
                               prop_filter |-> prop_filter, result |-> r])
    /\ IF IsErr(r)
       THEN pc' = "done" /\ outcome' = r /\ exec_result' = exec_result
       ELSE pc' = "store" /\ exec_result' = r.v /\ outcome' = outcome

\* commands/hql.rs lines 51-173
Analyze ==
    /\ pc = "start"
    /\ LET r == analyze(query, params_val) IN
       IF IsErr(r)
       THEN /\ pc' = "done"
            /\ outcome' = r
            /\ UNCHANGED <<params_val, variable_assignments,
                           variable_search_tools, return_vars>>
       ELSE /\ pc' = IF fast_path_eligible(query) THEN "fast_path" ELSE "shuffle"
            /\ params_val' = r.v.params_val
            /\ variable_assignments' = r.v.variable_assignments
            /\ variable_search_tools' = r.v.variable_search_tools
            /\ return_vars' = r.v.return_vars
            /\ outcome' = outcome
    /\ UNCHANGED <<query, final_map, var_name, resolved, connection_id, conn2,
                   compiled, tool_idx, prop_filter, exec_result, calls, evals,
                   next_conn>>

\* commands/hql.rs lines 175-190
FastPath ==
    /\ pc = "fast_path"
    /\ \E resp \in FastPathResponses :
          /\ calls' = Append(calls, Call("compiled_query", "",
                          [name |-> query.name, params |-> params_val], 0, resp))
          /\ IF is_success(resp) /\ IsSome(resp.body.json)
             THEN pc' = "done" /\ outcome' = Ok(normalize_value(resp.body.json[1]))
             ELSE pc' = "shuffle" /\ outcome' = outcome
    /\ UNCHANGED <<query, params_val, variable_assignments, variable_search_tools,
                   return_vars, final_map, var_name, resolved, connection_id,
                   conn2, compiled, tool_idx, prop_filter, exec_result, evals,
                   next_conn>>

\* commands/hql.rs lines 192-198
Shuffle ==
    /\ pc = "shuffle"
    /\ \E p \in Permutations(1..Len(return_vars)) :
          return_vars' = [i \in 1..Len(return_vars) |-> return_vars[p[i]]]
    /\ pc' = "loop"
    /\ UNCHANGED <<query, params_val, variable_assignments, variable_search_tools,
                   final_map, var_name, resolved, connection_id, conn2, compiled,
                   tool_idx, prop_filter, exec_result, outcome, calls, evals,
                   next_conn>>

\* commands/hql.rs lines 246-250
final_value(map) ==
    IF DOMAIN map = {Implicit}
    THEN normalize_value(map[Implicit])
    ELSE normalize_value(JObj(map))

\* commands/hql.rs lines 200-214 and 246-250: the head of the loop
LoopHead ==
    /\ pc = "loop"
    /\ \/ /\ return_vars = << >>
          /\ pc' = "done"
          /\ outcome' = Ok(final_value(final_map))
          /\ UNCHANGED <<return_vars, var_name, resolved, connection_id, conn2,
                         compiled, tool_idx, prop_filter>>
       \/ /\ return_vars # << >>
          /\ var_name' = Head(return_vars)
          /\ return_vars' = Tail(return_vars)
          /\ LET v == Head(return_vars)
                 is_search_var == v \in DOMAIN variable_search_tools
                 r == IF is_search_var THEN ResNone(0)
                      ELSE resolve_traversal(v, variable_assignments)
             IN  /\ resolved' = r
                 /\ IF r.tag = "Err"
                    THEN pc' = "done" /\ outcome' = Err(r.err)
                    ELSE IF ~is_search_var /\ r.tag = "None"
                    THEN pc' = "loop" /\ outcome' = outcome
                    ELSE pc' = "init" /\ outcome' = outcome
          /\ connection_id' = ""
          /\ conn2' = ""
          /\ compiled' = Idle
          /\ tool_idx' = 0
          /\ prop_filter' = None
    /\ UNCHANGED <<query, params_val, variable_assignments, variable_search_tools,
                   final_map, exec_result, calls, evals, next_conn>>

\* lines 216-229 with the id of the response replaced by one fixed id
init_result_fixed(resp) == Ok(ConnId(1))

\* commands/hql.rs lines 216-229
init_result(resp) ==
    IF ~resp.sent THEN Err(RequestError("Init failed", None, None))
    ELSE IF ~is_success(resp)
    THEN Err(RequestError("Init request failed",
                          Some(resp.status), Some(resp.body.text)))
    ELSE IF IsSome(resp.body.json) /\ resp.body.json[1].t = "str"
    THEN Ok(resp.body.json[1].s)
    ELSE Err(RequestError("Failed to parse connection_id", None,
                          Some(resp.body.text)))

\* hql_executor.rs lines 65-68: the status of the response is not read
pass2_init_result(resp) ==
    IF ~resp.sent THEN Err(RequestError("Init failed for pass 2", None, None))
    ELSE IF IsSome(resp.body.json) /\ resp.body.json[1].t = "str"
    THEN Ok(resp.body.json[1].s)
    ELSE Err(RequestError("Failed to parse connection_id", None, None))

\* The remote has issued a session exactly when it answered init with success
\* and a fresh id.
Issued(resp) ==
    IF is_success(resp) /\ IsSome(resp.body.json) THEN next_conn + 1 ELSE next_conn

\* commands/hql.rs lines 216-229
InitSession ==
    /\ pc = "init"
    /\ \E resp \in InitResponses :
          /\ calls' = Append(calls, Call("init", "", None, CurrentEval, resp))
          /\ next_conn' = Issued(resp)
          /\ LET r == init_result(resp) IN
             IF IsErr(r)
             THEN pc' = "done" /\ outcome' = r /\ connection_id' = connection_id
             ELSE /\ connection_id' = r.v
                  /\ outcome' = outcome
                  /\ pc' = IF var_name \in DOMAIN variable_search_tools
                           THEN "search_send" ELSE "execute_pipeline"
    /\ UNCHANGED <<query, params_val, variable_assignments, variable_search_tools,
                   return_vars, final_map, var_name, resolved, conn2, compiled,
                   tool_idx, prop_filter, exec_result, evals>>

\* hql_executor.rs lines 14-24: compile, choose the strategy
Compile ==
    /\ pc = "execute_pipeline"
    /\ LET c == map_traversal_to_tools(resolved.t, params_val) IN
       IF IsErr(c)
       THEN /\ PipelineReturn(c, None)
            /\ UNCHANGED <<compiled, tool_idx>>
       ELSE /\ compiled' = c.v
            /\ tool_idx' = 1
            /\ pc' = IF two_pass(c.v) THEN "p1_start" ELSE "std_tools"
            /\ UNCHANGED <<evals, exec_result, outcome>>
    /\ UNCHANGED <<query, params_val, variable_assignments, variable_search_tools,
                   return_vars, final_map, var_name, resolved, connection_id,
                   conn2, prop_filter, calls, next_conn>>

\* One more entry of the call history, for the evaluation under way.
Log(op, conn, payload, resp) ==
    calls' = Append(calls, Call(op, conn, payload, CurrentEval, resp))

\* A first item is made up where none survived.
first_survivor_any(filtered) ==
    IF filtered.t = "arr" /\ filtered.a # << >>
    THEN Some(filtered.a[1]) ELSE Some(JNull)

\* hql_executor.rs lines 29 and 61-63: the first item that survived pass 1
first_survivor(filtered) ==
    IF filtered.t = "arr" /\ filtered.a # << >>
    THEN Some(filtered.a[1]) ELSE None

\* Pass 2 goes on in the session of pass 1.
pass2_session_reused(first, second) == first

\* hql_executor.rs lines 70-78: the session pass 2 talks to
pass2_session(first, second) == second

\* hql_executor.rs line 25
P1SendStart ==
    /\ pc = "p1_start"
    /\ \E resp \in ToolResponses(connection_id) :
          /\ Log(tool_endpoint(compiled.tools[1]), connection_id,
                 compiled.tools[1], resp)
          /\ LET r == send_tool_result(compiled.tools[1], resp) IN
             IF IsErr(r)
             THEN PipelineReturn(r, Some(compiled))
             ELSE pc' = "p1_collect" /\ UNCHANGED <<evals, exec_result, outcome>>
    /\ UNCHANGED <<query, params_val, variable_assignments, variable_search_tools,
                   return_vars, final_map, var_name, resolved, connection_id,
                   conn2, compiled, tool_idx, prop_filter, next_conn>>

\* hql_executor.rs lines 26-63
P1Collect ==
    /\ pc = "p1_collect"
    /\ \E resp \in TerminalResponses(connection_id) :
          /\ Log("collect", connection_id, collect_payload(None), resp)
          /\ LET all_items == collect_result(resp) IN
             IF IsErr(all_items)
             THEN prop_filter' = prop_filter /\ PipelineReturn(all_items, Some(compiled))
             ELSE LET filtered == filter_by_ids(all_items.v, compiled.id_filters)
                      item == first_survivor(filtered)
                  IN  IF IsSome(item)
                      THEN /\ prop_filter' = synthetic_filter(item[1])
                           /\ pc' = "p2_init"
                           /\ UNCHANGED <<evals, exec_result, outcome>>
                      ELSE /\ prop_filter' = prop_filter
                           /\ PipelineReturn(Ok(JArr(<< >>)), Some(compiled))
    /\ UNCHANGED <<query, params_val, variable_assignments, variable_search_tools,
                   return_vars, final_map, var_name, resolved, connection_id,
                   conn2, compiled, tool_idx, next_conn>>

\* hql_executor.rs lines 65-68
P2Init ==
    /\ pc = "p2_init"
    /\ \E resp \in InitResponses :
          /\ Log("init", "", None, resp)
          /\ next_conn' = Issued(resp)
          /\ LET r == pass2_init_result(resp) IN
             IF IsErr(r)
             THEN conn2' = conn2 /\ PipelineReturn(r, Some(compiled))
             ELSE /\ conn2' = r.v
                  /\ pc' = "p2_start"
                  /\ UNCHANGED <<evals, exec_result, outcome>>
    /\ UNCHANGED <<query, params_val, variable_assignments, variable_search_tools,
                   return_vars, final_map, var_name, resolved, connection_id,
                   compiled, tool_idx, prop_filter>>

\* The start tool is sent again.
after_start_again == "p2_start"

\* What pass 2 does after a tool went through: lines 71-78.
after_start == IF IsSome(prop_filter) THEN "p2_filter" ELSE "p2_tools"

\* One send_tool of pass 2 and where the code goes after it.
P2Send(tool, idx, next_pc) ==
    \E resp \in ToolResponses(pass2_session(connection_id, conn2)) :
       /\ Log(tool_endpoint(tool), pass2_session(connection_id, conn2), tool, resp)
       /\ LET r == send_tool_result(tool, resp) IN
          IF IsErr(r)
          THEN tool_idx' = tool_idx /\ PipelineReturn(r, Some(compiled))
          ELSE /\ tool_idx' = idx
               /\ pc' = next_pc
               /\ UNCHANGED <<evals, exec_result, outcome>>

\* hql_executor.rs line 70
P2SendStart ==
    /\ pc = "p2_start"
    /\ P2Send(compiled.tools[1], 2, after_start)
    /\ UNCHANGED <<query, params_val, variable_assignments, variable_search_tools,
                   return_vars, final_map, var_name, resolved, connection_id,
                   conn2, compiled, prop_filter, next_conn>>

\* hql_executor.rs lines 71-73
P2SendFilter ==
    /\ pc = "p2_filter"
    /\ P2Send(prop_filter[1], tool_idx, "p2_tools")
    /\ UNCHANGED <<query, params_val, variable_assignments, variable_search_tools,
                   return_vars, final_map, var_name, resolved, connection_id,
                   conn2, compiled, prop_filter, next_conn>>

\* hql_executor.rs lines 74-76
P2SendTool ==
    /\ pc = "p2_tools"
    /\ tool_idx <= Len(compiled.tools)
    /\ P2Send(compiled.tools[tool_idx], tool_idx + 1, "p2_tools")
    /\ UNCHANGED <<query, params_val, variable_assignments, variable_search_tools,
                   return_vars, final_map, var_name, resolved, connection_id,
                   conn2, compiled, prop_filter, next_conn>>

\* hql_executor.rs line 78
P2Final ==
    /\ pc = "p2_tools"
    /\ tool_idx > Len(compiled.tools)
    /\ \E resp \in TerminalResponses(pass2_session(connection_id, conn2)) :
          /\ Log(final_endpoint(compiled.final_action),
                 pass2_session(connection_id, conn2),
                 final_payload(compiled.final_action), resp)
          /\ PipelineReturn(final_result(compiled.final_action, resp), Some(compiled))
    /\ UNCHANGED <<query, params_val, variable_assignments, variable_search_tools,
                   return_vars, final_map, var_name, resolved, connection_id,
                   conn2, compiled, tool_idx, prop_filter, next_conn>>

\* hql_executor.rs lines 81-83
StdSendTool ==
    /\ pc = "std_tools"
    /\ tool_idx <= Len(compiled.tools)
    /\ \E resp \in ToolResponses(connection_id) :
          /\ Log(tool_endpoint(compiled.tools[tool_idx]), connection_id,
                 compiled.tools[tool_idx], resp)
          /\ LET r == send_tool_result(compiled.tools[tool_idx], resp) IN
             IF IsErr(r)
             THEN tool_idx' = tool_idx /\ PipelineReturn(r, Some(compiled))
             ELSE /\ tool_idx' = tool_idx + 1
                  /\ pc' = "std_tools"
                  /\ UNCHANGED <<evals, exec_result, outcome>>
    /\ UNCHANGED <<query, params_val, variable_assignments, variable_search_tools,
                   return_vars, final_map, var_name, resolved, connection_id,
                   conn2, compiled, prop_filter, next_conn>>

\* hql_executor.rs lines 85-91
standard_result(r, ids) ==
    IF IsErr(r) THEN r
    ELSE IF ids # << >> THEN Ok(filter_by_ids(r.v, ids)) ELSE r

\* hql_executor.rs lines 85-91
StdFinal ==
    /\ pc = "std_tools"
    /\ tool_idx > Len(compiled.tools)
    /\ \E resp \in TerminalResponses(connection_id) :
          /\ Log(final_endpoint(compiled.final_action), connection_id,
                 final_payload(compiled.final_action), resp)
          /\ PipelineReturn(standard_result(final_result(compiled.final_action, resp),
                                            compiled.id_filters), Some(compiled))
    /\ UNCHANGED <<query, params_val, variable_assignments, variable_search_tools,
                   return_vars, final_map, var_name, resolved, connection_id,
                   conn2, compiled, tool_idx, prop_filter, next_conn>>

\* execute_search_tool (commands/hql.rs line 232): the search tool goes to
\* its endpoint in the session just opened
SearchSend ==
    /\ pc = "search_send"
    /\ \E resp \in ToolResponses(connection_id) :
          /\ Log(tool_endpoint(variable_search_tools[var_name]), connection_id,
                 variable_search_tools[var_name], resp)
          /\ LET r == send_tool_result(variable_search_tools[var_name], resp) IN
             IF IsErr(r)
             THEN PipelineReturn(r, None)
             ELSE pc' = "search_collect" /\ UNCHANGED <<evals, exec_result, outcome>>
    /\ UNCHANGED <<query, params_val, variable_assignments, variable_search_tools,
                   return_vars, final_map, var_name, resolved, connection_id,
                   conn2, compiled, tool_idx, prop_filter, next_conn>>

\* execute_search_tool (commands/hql.rs line 232): the session is drained
SearchCollect ==
    /\ pc = "search_collect"
    /\ \E resp \in TerminalResponses(connection_id) :
          /\ Log("collect", connection_id, collect_payload(None), resp)
          /\ PipelineReturn(collect_result(resp), None)
    /\ UNCHANGED <<query, params_val, variable_assignments, variable_search_tools,
                   return_vars, final_map, var_name, resolved, connection_id,
                   conn2, compiled, tool_idx, prop_filter, next_conn>>

\* commands/hql.rs lines 239-243
StoreResult ==
    /\ pc = "store"
    /\ IF var_name = Implicit /\ DOMAIN final_map = {}
       THEN /\ pc' = "done"
            /\ outcome' = Ok(normalize_value(exec_result))
            /\ final_map' = final_map
       ELSE /\ pc' = "loop"
            /\ final_map' = MapInsert(final_map, var_name, exec_result)
            /\ outcome' = outcome
    /\ UNCHANGED <<query, params_val, variable_assignments, variable_search_tools,
                   return_vars, var_name, resolved, connection_id, conn2,
                   compiled, tool_idx, prop_filter, exec_result, calls, evals,
                   next_conn>>

Next ==
    \/ Analyze
    \/ FastPath
    \/ Shuffle
    \/ LoopHead
    \/ InitSession
    \/ Compile
    \/ P1SendStart
    \/ P1Collect
    \/ P2Init
    \/ P2SendStart
    \/ P2SendFilter
    \/ P2SendTool
    \/ P2Final
    \/ StdSendTool
    \/ StdFinal
    \/ SearchSend
    \/ SearchCollect
    \/ StoreResult

Spec == Init /\ [][Next]_vars

(***************************************************************************)
(* Inputs of SpecResolve: assignment tables.                               *)
(***************************************************************************)
VarName(i) == "v" \o ToString(i)
AbsentName == "zz"

StepsOf(i, n) == [k \in 1..n |-> GraphStep("Out", "e" \o ToString(i) \o "_" \o ToString(k))]

TypedRoots == { NodeStart("User", << >>), EdgeStart("Follows", << >>) }

\* v0 starts with root; v(i) starts with Identifier(v(i-1)); v(i) has
\* (i + off) % 3 steps of its own.
ChainTable(n, root, off) ==
    [x \in {VarName(i) : i \in 0..(n - 1)} |->
        LET i == CHOOSE j \in 0..(n - 1) : VarName(j) = x
        IN  Traversal(IF i = 0 THEN root ELSE IdentifierStart(VarName(i - 1)),
                      StepsOf(i, (i + off) % 3))]

ChainRoots(n) ==
    TypedRoots \cup {IdentifierStart(AbsentName)}
               \cup {IdentifierStart(VarName(j)) : j \in 0..(n - 1)}

ChainTables ==
    UNION { {ChainTable(n, root, off) : root \in ChainRoots(n), off \in 0..2}
            : n \in 1..MaxChain }

\* Every table over at most MaxVars names: each name is unassigned, has a
\* typed start, or starts with the identifier of any name (or a missing one).
SmallNames == {VarName(i) : i \in 0..(MaxVars - 1)}
SmallStarts == {NodeStart("User", << >>)}
                 \cup {IdentifierStart(x) : x \in SmallNames \cup {AbsentName}}
SmallTables ==
    UNION { [D -> SmallStarts] : D \in SUBSET SmallNames }
SmallTable(f) ==
    [x \in DOMAIN f |->
        LET i == CHOOSE j \in 0..(MaxVars - 1) : VarName(j) = x
        IN  Traversal(f[x], StepsOf(i, 1))]

ResolveTables == ChainTables \cup {SmallTable(f) : f \in SmallTables}

(***************************************************************************)
(* SpecResolve: resolve_traversal on a drawn table and name.               *)
(***************************************************************************)
InitResolve ==
    /\ pc = "resolve"
    /\ variable_assignments \in ResolveTables
    /\ var_name \in DOMAIN variable_assignments \cup {AbsentName}
    /\ resolved = Idle
    /\ query = Idle
    /\ params_val = EmptyMap
    /\ variable_search_tools = EmptyMap
    /\ return_vars = << >>
    /\ final_map = EmptyMap
    /\ connection_id = ""
    /\ conn2 = ""
    /\ compiled = Idle
    /\ tool_idx = 0
    /\ prop_filter = None
    /\ exec_result = Idle
    /\ outcome = Idle
    /\ calls = << >>
    /\ evals = << >>
    /\ next_conn = 0

Resolve ==
    /\ pc = "resolve"
    /\ resolved' = resolve_traversal(var_name, variable_assignments)
    /\ pc' = "resolved"
    /\ UNCHANGED <<query, params_val, variable_assignments,
                   variable_search_tools, return_vars, final_map, var_name,
                   connection_id, conn2, compiled, tool_idx, prop_filter,
                   exec_result, outcome, calls, evals, next_conn>>

NextResolve == Resolve

SpecResolve == InitResolve /\ [][NextResolve]_vars

(***************************************************************************)
(* SpecFilter: map_expression_to_filter on a drawn WHERE expression.  The  *)
(* expression is held in query, the result in compiled.                    *)
(***************************************************************************)
AndExpr(exprs) == [expr |-> "And", exprs |-> exprs]
OrExpr(exprs)  == [expr |-> "Or", exprs |-> exprs]
PathExists(steps) == TraversalExpr(Traversal(AnonymousStart, steps))

\* The sequences over S of length at most n.
SeqsUpTo(S, n) == UNION {[1..k -> S] : k \in 0..n}

Comparisons ==
    { Compare("score", "GreaterThanOrEqual", IntegerLiteral(70)),
      Compare("score", "LessThan", IntegerLiteral(80)),
      Compare("active", "Equal", [expr |-> "BooleanLiteral", b |-> TRUE]) }
PathFilters == { PathExists(<<GraphStep("Out", "Follows")>>) }
FilterAtoms == Comparisons \cup PathFilters

\* AND / OR over at most MaxArity sub-expressions, nested MaxNest deep; the
\* outermost operator takes at most two.
Connectives(S, n) ==
    {AndExpr(s) : s \in SeqsUpTo(S, n)} \cup {OrExpr(s) : s \in SeqsUpTo(S, n)}

RECURSIVE FilterExprs(_)
FilterExprs(nest) ==
    IF nest = 0 THEN FilterAtoms
    ELSE LET inner == FilterExprs(nest - 1)
         IN  inner \cup Connectives(inner, IF nest = 1 THEN MaxArity ELSE 2)

InitFilter ==
    /\ pc = "filter"
    /\ query \in FilterExprs(MaxNest)
    /\ params_val = EmptyMap
    /\ variable_assignments = EmptyMap
    /\ var_name = ""
    /\ resolved = Idle
    /\ variable_search_tools = EmptyMap
    /\ return_vars = << >>
    /\ final_map = EmptyMap
    /\ connection_id = ""
    /\ conn2 = ""
    /\ compiled = Idle
    /\ tool_idx = 0
    /\ prop_filter = None
    /\ exec_result = Idle
    /\ outcome = Idle
    /\ calls = << >>
    /\ evals = << >>
    /\ next_conn = 0

\* hql_translator.rs line 173: the filter of a WHERE step
CompileFilter ==
    /\ pc = "filter"
    /\ compiled' = map_expression_to_filter(query, params_val)
    /\ pc' = "filtered"
    /\ UNCHANGED <<query, params_val, variable_assignments,
                   variable_search_tools, return_vars, final_map, var_name,
                   resolved, connection_id, conn2, tool_idx, prop_filter,
                   exec_result, outcome, calls, evals, next_conn>>

NextFilter == CompileFilter

SpecFilter == InitFilter /\ [][NextFilter]_vars

(***************************************************************************)
(* SpecCompile: map_traversal_to_tools applied to one resolved traversal.  *)
(* The traversals are a typed start without ids followed by up to MaxSteps *)
(* steps of every kind, and every start node with up to MaxIds ids         *)
(* followed by at most one step; the parameter object is empty or binds    *)
(* every parameter but "other".                                            *)
(***************************************************************************)
RangeStep(start, end)  == [step |-> "Range", start |-> start, end |-> end]
FirstStep              == [step |-> "First"]
AggregateStep(props)   == [step |-> "Aggregate", properties |-> props]
OrderByStep(expression, order) ==
    [step |-> "OrderBy", expression |-> expression, order |-> order]
FieldIs(key, value)    == [key |-> key, value |-> value]
IdentifierField(name)  == [fv |-> "Identifier", name |-> name]
LiteralField(v)        == [fv |-> "Literal", v |-> v]
EmbedText(text, type, k) ==
    [vector_type |-> Some(type),
     data |-> Some([d |-> "Embed", value |-> [stype |-> "StringLiteral", s |-> text]]),
     k |-> Some([ntype |-> "I32", value |-> k])]
SearchVectorStep(sv)   == [step |-> "Node", gs |-> [g |-> "SearchVector", sv |-> sv]]
ByIndex(index, value)  == [id |-> "ByIndex", index |-> index, value |-> value]
LiteralValue(v)        == [vtype |-> "Literal", value |-> v]
IdentifierValue(name)  == [vtype |-> "Identifier", name |-> name]
ObjectValue            == [vtype |-> "Object"]

FullParams ==
    [k \in {"id", "min", "lo", "hi", "who"} |->
        CASE k = "id"  -> JStr("u1")
          [] k = "min" -> JInt(30)
          [] k = "lo"  -> JInt(-1)
          [] k = "hi"  -> JInt(5)
          [] k = "who" -> JStr("alice")]
ParamMaps == {NoParams, FullParams}

WalkSteps ==
    { GraphStep("Out", "Follows"), GraphStep("In", "Follows"),
      GraphStep("OutE", "Likes"), GraphStep("InE", "Likes") }
FusionSteps == { GraphStep("FromN", ""), GraphStep("ToN", "") }
FilterSteps ==
    { Where(Compare("age", "GreaterThan", IntegerLiteral(50))),
      Where(Compare("age", "GreaterThanOrEqual", Identifier("min"))),
      ObjectStep(<<FieldIs("name", IdentifierField("who"))>>) }
OrderSteps ==
    { OrderByStep(TraversalExpr(Traversal(AnonymousStart, <<ObjectStep(<<Field("age")>>)>>)),
                  "Desc") }
TerminalSteps ==
    { RangeStep(IntegerLiteral(1), IntegerLiteral(5)),
      RangeStep(Identifier("lo"), Identifier("hi")),
      FirstStep, CountStep,
      AggregateStep(<<"age", "name">>), GroupByStep(<<"name", "age">>) }
VectorSteps == { SearchVectorStep(EmbedText("cats", "Doc", 3)) }
UnsupportedSteps == { GraphStep("FromV", ""), UpdateStep }

StepPool ==
    WalkSteps \cup FusionSteps \cup FilterSteps \cup OrderSteps
        \cup TerminalSteps \cup VectorSteps \cup UnsupportedSteps

IdPool ==
    { LiteralId("u1"), LiteralId("u2"), IdentifierId("id"), IdentifierId("other"),
      ByIndex(IdentifierId("name"), LiteralValue(VString("alice"))),
      ByIndex(LiteralId("email"), IdentifierValue("who")),
      ByIndex(IdentifierId("name"), ObjectValue),
      ByIndex(ByIndex(IdentifierId("a"), ObjectValue), LiteralValue(VString("alice"))) }

TypedStarts(ids) ==
    { NodeStart("User", ids), EdgeStart("Likes", ids), VectorStart("Doc", ids) }

CompileInputs ==
    {Traversal(NodeStart("User", << >>), steps) : steps \in SeqsUpTo(StepPool, MaxSteps)}
    \cup UNION {{Traversal(start, steps) : start \in TypedStarts(ids)} :
                  ids \in SeqsUpTo(IdPool, MaxIds),
                  steps \in SeqsUpTo(StepPool, 1)}
    \cup {Traversal(SearchVectorStart(EmbedText("cats", "Doc", 3)), steps) :
              steps \in SeqsUpTo(StepPool, 1)}

InitCompile ==
    /\ pc = "compile"
    /\ query \in CompileInputs
    /\ params_val \in ParamMaps
    /\ variable_assignments = EmptyMap
    /\ variable_search_tools = EmptyMap
    /\ return_vars = << >>
    /\ final_map = EmptyMap
    /\ var_name = ""
    /\ resolved = Idle
    /\ connection_id = ""
    /\ conn2 = ""
    /\ compiled = Idle
    /\ tool_idx = 0
    /\ prop_filter = Idle
    /\ exec_result = Idle
    /\ outcome = Idle
    /\ calls = << >>
    /\ evals = << >>
    /\ next_conn = 1

\* hql_executor.rs line 15: map_traversal_to_tools(traversal, params)
CompileTraversal ==
    /\ pc = "compile"
    /\ compiled' = map_traversal_to_tools(query, params_val)
    /\ pc' = "compiled"
    /\ UNCHANGED <<query, params_val, variable_assignments, variable_search_tools,
                   return_vars, final_map, var_name, resolved, connection_id, conn2,
                   tool_idx, prop_filter, exec_result, outcome, calls, evals, next_conn>>

NextCompile == CompileTraversal

SpecCompile == InitCompile /\ [][NextCompile]_vars

(***************************************************************************)
(* SpecNormalize: normalize_value applied to a JSON value and once more to *)
(* its result.  The values are scalars, objects of up to MaxFields fields  *)
(* nested up to MaxJsonNest deep, such objects wrapped in a "properties"   *)
(* field, and short arrays.                                                *)
(***************************************************************************)
JsonKeys == {"id", "properties", "version", "vectors"}
JsonLeaves == {JInt(1), JStr("a")}
JsonObjects(values) ==
    {JObj(o) : o \in UNION {[S -> values] :
                               S \in {T \in SUBSET JsonKeys : Cardinality(T) <= MaxFields}}}
RECURSIVE JsonValues(_)
JsonValues(nest) ==
    IF nest = 0 THEN JsonLeaves
    ELSE LET inner == JsonValues(nest - 1) IN inner \cup JsonObjects(inner)
JsonInputs(nest) ==
    JsonValues(nest)
        \cup {JObj([k \in {"properties"} |-> v]) : v \in JsonValues(nest)}
        \cup {JArr(a) : a \in SeqsUpTo(JsonValues(1), 2)}

InitNormalize ==
    /\ pc = "normalize"
    /\ query \in JsonInputs(MaxJsonNest)
    /\ params_val = EmptyMap
    /\ variable_assignments = EmptyMap
    /\ variable_search_tools = EmptyMap
    /\ return_vars = << >>
    /\ final_map = EmptyMap
    /\ var_name = ""
    /\ resolved = Idle
    /\ connection_id = ""
    /\ conn2 = ""
    /\ compiled = Idle
    /\ tool_idx = 0
    /\ prop_filter = Idle
    /\ exec_result = Idle
    /\ outcome = Idle
    /\ calls = << >>
    /\ evals = << >>
    /\ next_conn = 0

\* commands/hql.rs lines 186, 240, 247, 250: the result is normalized
Normalize ==
    /\ pc = "normalize"
    /\ exec_result' = normalize_value(query)
    /\ pc' = "normalized"
    /\ UNCHANGED <<query, params_val, variable_assignments, variable_search_tools,
                   return_vars, final_map, var_name, resolved, connection_id, conn2,
                   compiled, tool_idx, prop_filter, outcome, calls, evals, next_conn>>

\* a normalized value is normalized once more
NormalizeAgain ==
    /\ pc = "normalized"
    /\ outcome' = normalize_value(exec_result)
    /\ pc' = "renormalized"
    /\ UNCHANGED <<query, params_val, variable_assignments, variable_search_tools,
                   return_vars, final_map, var_name, resolved, connection_id, conn2,
                   compiled, tool_idx, prop_filter, exec_result, calls, evals,
                   next_conn>>

NextNormalize == Normalize \/ NormalizeAgain

SpecNormalize == InitNormalize /\ [][NextNormalize]_vars

(***************************************************************************)
(* SpecOrder: the loop of execute_dynamic_hql over the shuffled return     *)
(* variables, commands/hql.rs lines 200-250, for one query evaluated in    *)
(* two orders against the same remote: every variable has one result, the  *)
(* same in both orders.                                                    *)
(***************************************************************************)
\* lines 200-250: the value returned when the variables are evaluated in the
\* given order, results[v] being the result of the executor for variable v
RECURSIVE evaluate_in_order(_, _, _)
evaluate_in_order(order, results, map) ==
    IF order = << >> THEN Ok(final_value(map))
    ELSE LET v == Head(order) IN
         IF v = Implicit /\ DOMAIN map = {}
         THEN Ok(normalize_value(results[v]))
         ELSE evaluate_in_order(Tail(order), results, MapInsert(map, v, results[v]))

ReturnNames == {"a", "b", Implicit}
VariableResults == {JArr(<< >>), JArr(<<ItemBob>>)}
Orders(S) ==
    {[i \in 1..Cardinality(S) |-> f[i]] :
        f \in {g \in [1..Cardinality(S) -> S] :
                  \A i, j \in 1..Cardinality(S) : g[i] = g[j] => i = j}}

InitOrder ==
    /\ pc = "order"
    /\ \E S \in SUBSET ReturnNames \ {{}} :
          /\ return_vars \in Orders(S)
          /\ evals \in Orders(S)
          /\ final_map \in [S -> VariableResults]
    /\ query = Idle
    /\ params_val = EmptyMap
    /\ variable_assignments = EmptyMap
    /\ variable_search_tools = EmptyMap
    /\ var_name = ""
    /\ resolved = Idle
    /\ connection_id = ""
    /\ conn2 = ""
    /\ compiled = Idle
    /\ tool_idx = 0
    /\ prop_filter = Idle
    /\ exec_result = Idle
    /\ outcome = Idle
    /\ calls = << >>
    /\ next_conn = 0

\* lines 200-250 in the order return_vars
EvaluateFirst ==
    /\ pc = "order"
    /\ outcome' = evaluate_in_order(return_vars, final_map, EmptyMap)
    /\ pc' = "first_order"
    /\ UNCHANGED <<query, params_val, variable_assignments, variable_search_tools,
                   return_vars, final_map, var_name, resolved, connection_id, conn2,
                   compiled, tool_idx, prop_filter, exec_result, calls, evals,
                   next_conn>>

\* lines 200-250 in the order evals
EvaluateSecond ==
    /\ pc = "first_order"
    /\ exec_result' = evaluate_in_order(evals, final_map, EmptyMap)
    /\ pc' = "second_order"
    /\ UNCHANGED <<query, params_val, variable_assignments, variable_search_tools,
                   return_vars, final_map, var_name, resolved, connection_id, conn2,
                   compiled, tool_idx, prop_filter, outcome, calls, evals,
                   next_conn>>

NextOrder == EvaluateFirst \/ EvaluateSecond

SpecOrder == InitOrder /\ [][NextOrder]_vars

(***************************************************************************)
(* Reference constructions for the resolver claims: the path of parent     *)
(* references from a name, followed without any depth bound.               *)
(***************************************************************************)
InSeq(x, s) == \E i \in 1..Len(s) : s[i] = x

\* names: the variables visited, the queried one first; end: why it stops.
RECURSIVE PathFrom(_, _, _)
PathFrom(table, x, seen) ==
    IF x \notin DOMAIN table
    THEN [names |-> seen, end |-> "missing", at |-> x]
    ELSE IF InSeq(x, seen)
    THEN [names |-> seen, end |-> "cycle", at |-> x]
    ELSE IF table[x].start.kind = "Identifier"
    THEN PathFrom(table, table[x].start.name, Append(seen, x))
    ELSE [names |-> Append(seen, x), end |-> "typed", at |-> x]

\* v0.steps ++ v1.steps ++ ... ++ vn.steps for names = <<vn, ..., v0>>.
RECURSIVE ChainSteps(_, _)
ChainSteps(table, names) ==
    IF names = << >> THEN << >>
    ELSE ChainSteps(table, Tail(names)) \o table[Head(names)].steps

ResolvePath == PathFrom(variable_assignments, var_name, << >>)

ChainResolved ==
    /\ resolved.tag = "Some"
    /\ resolved.t.start = variable_assignments[ResolvePath.at].start
    /\ resolved.t.steps = ChainSteps(variable_assignments, ResolvePath.names)

\* C8 (as stated): for every chain v0, ..., vn with a typed v0, whatever its
\* length, resolve_traversal(vn) returns v0's start node and the steps
\* v0.steps ++ ... ++ vn.steps.
C8_AnyLength ==
    (pc = "resolved" /\ ResolvePath.end = "typed") => ChainResolved

\* C8 (amended): the chain collapses as stated when n <= 20 (at most
\* MaxDepth + 1 variables); a longer chain yields the circular-dependency /
\* too-deep error and no traversal.
C8_ChainUpToDepth ==
    (pc = "resolved" /\ ResolvePath.end = "typed") =>
        IF Len(ResolvePath.names) <= MaxDepth + 1
        THEN ChainResolved
        ELSE /\ resolved.tag = "Err"
             /\ resolved.err.kind = "CircularDependency"

C8_Witness ==
    /\ pc = "resolved"
    /\ ResolvePath.end = "typed"
    /\ Len(ResolvePath.names) = MaxDepth + 1
    /\ resolved.tag = "Some"
    /\ Len(resolved.t.steps) > MaxDepth

\* C9: resolving a variable that reaches a reference cycle returns the
\* circular-dependency error after at most MaxDepth + 2 invocations of the
\* recursive resolver; it never returns a traversal.
C9_CycleIsError ==
    (pc = "resolved" /\ ResolvePath.end = "cycle") =>
        /\ resolved.tag = "Err"
        /\ resolved.err.kind = "CircularDependency"
        /\ resolved.calls <= MaxDepth + 2

\* A variable outside the cycle that leads into a cycle of two variables.
C9_Witness ==
    /\ pc = "resolved"
    /\ ResolvePath.end = "cycle"
    /\ ResolvePath.at # var_name
    /\ Len(ResolvePath.names) >= 3
    /\ resolved.tag = "Err"

\* C10 (as stated): a parent identifier p that is absent from the table, at
\* any level of an acyclic chain, yields the variable-not-found error naming p.
C10_AnyLevel ==
    (pc = "resolved" /\ ResolvePath.end = "missing"
        /\ Len(ResolvePath.names) >= 1) =>
        /\ resolved.tag = "Err"
        /\ resolved.err = VariableNotFound(ResolvePath.at)

\* C10 (amended): the missing parent is reported by name when at most
\* MaxDepth variables precede it in the chain; deeper than that the resolver
\* reports the circular-dependency / too-deep error before looking p up.
C10_MissingUpToDepth ==
    (pc = "resolved" /\ ResolvePath.end = "missing"
        /\ Len(ResolvePath.names) >= 1) =>
        IF Len(ResolvePath.names) <= MaxDepth
        THEN /\ resolved.tag = "Err"
             /\ resolved.err = VariableNotFound(ResolvePath.at)
        ELSE /\ resolved.tag = "Err"
             /\ resolved.err.kind = "CircularDependency"

C10_Witness ==
    /\ pc = "resolved"
    /\ ResolvePath.end = "missing"
    /\ Len(ResolvePath.names) = MaxDepth
    /\ resolved.tag = "Err"
    /\ resolved.err.kind = "VariableNotFound"

(***************************************************************************)
(* Reference constructions for the executor claims, read off the history   *)
(* of remote calls and of finished evaluations.                            *)
(***************************************************************************)
IsToolCall(c) ==
    c.op \in {"tool_call", "search_keyword", "search_vector", "search_vector_text"}
IsTerminalCall(c) == c.op \in {"collect", "aggregate_by", "group_by"}

CallsOfEval(k)  == SelectSeq(calls, LAMBDA c : c.ev = k)
SessionCalls(s) == SelectSeq(calls, LAMBDA c : c.conn = s)
Sessions        == {calls[i].conn : i \in 1..Len(calls)} \ {""}
TerminalCount(s) ==
    Cardinality({i \in 1..Len(SessionCalls(s)) : IsTerminalCall(SessionCalls(s)[i])})

HasListedId(item, ids) ==
    /\ item.t = "obj"
    /\ "id" \in DOMAIN item.o
    /\ item.o["id"].t = "str"
    /\ InSeq(item.o["id"].s, ids)

HasWriteStep(t) == \E i \in 1..Len(t.steps) : t.steps[i].step \in {"Update", "Upsert"}
IsWriteExpression(e) ==
    \/ e.expr \in {"AddNode", "AddEdge", "AddVector"}
    \/ e.expr = "Traversal" /\ HasWriteStep(e.t)
IsWriteStatement(stmt) ==
    \/ stmt.stmt = "Drop"
    \/ stmt.stmt = "Assignment" /\ IsWriteExpression(stmt.value)
    \/ stmt.stmt = "Expression" /\ IsWriteExpression(stmt.expr)
ContainsWrite(q) == \E i \in 1..Len(q.statements) : IsWriteStatement(q.statements[i])

IsCompileOrResolutionError(e) ==
    e.kind \in {"CompileError", "MissingParameter", "UnsupportedStep",
                "CircularDependency", "VariableNotFound"}

\* The evaluation k ran the pipeline executor in its two-pass strategy.
TwoPassEval(k) ==
    /\ IsSome(evals[k].compiled)
    /\ evals[k].compiled[1].id_filters # << >>
    /\ Len(evals[k].compiled[1].tools) > 1
SinglePassEval(k) ==
    /\ IsSome(evals[k].compiled)
    /\ ~(evals[k].compiled[1].id_filters # << >> /\ Len(evals[k].compiled[1].tools) > 1)

\* Pass 1 of evaluation k collected a value: init, start tool, collect.
Pass1Collected(k) ==
    LET cs == CallsOfEval(k)
    IN  /\ Len(cs) >= 3
        /\ cs[3].op = "collect"
        /\ is_success(cs[3].resp)
        /\ IsSome(cs[3].resp.body.json)
Pass1Items(k) ==
    LET v == CallsOfEval(k)[3].resp.body.json[1]
    IN  IF v.t = "arr" THEN v.a ELSE << >>
Pass1Survivors(k) ==
    SelectSeq(Pass1Items(k),
              LAMBDA it : HasListedId(it, evals[k].compiled[1].id_filters))

IsSyntheticFilter(tool) ==
    /\ tool.tool = "filter_items"
    /\ IsSome(tool.filter.properties)
    /\ tool.filter.properties[1] # << >>
    /\ \A i \in 1..Len(tool.filter.properties[1]) :
          LET clause == tool.filter.properties[1][i]
          IN  /\ clause # << >>
              /\ \A j \in 1..Len(clause) :
                    clause[j].operator = Some("==") /\ clause[j].key # "id"

(***************************************************************************)
(* C1 (as stated): a query that contains a write construct is rejected and *)
(* no remote call of any kind is issued for it, before or after the        *)
(* rejection.                                                              *)
(***************************************************************************)
C1_WriteRejectedWithoutCalls ==
    ContainsWrite(query) =>
        /\ calls = << >>
        /\ pc = "done" => IsErr(outcome)

(***************************************************************************)
(* C2 (as stated): when the evaluation of a query ends in a compile error  *)
(* or a resolution error, no remote call has been issued by then.          *)
(***************************************************************************)
C2_NoCallBeforeCompileError ==
    (pc = "done" /\ IsErr(outcome) /\ IsCompileOrResolutionError(outcome.err))
        => calls = << >>

(***************************************************************************)
(* C3: every session id receives tool dispatches, then at most one         *)
(* terminal call (with drop = true), and nothing after it; every session   *)
(* used by an evaluation that completed successfully has received exactly  *)
(* one terminal call.                                                      *)
(***************************************************************************)
C3_SessionLifecycle ==
    /\ \A s \in Sessions :
          LET sc == SessionCalls(s)
          IN  \A i \in 1..Len(sc) :
                 /\ IsToolCall(sc[i]) \/ IsTerminalCall(sc[i])
                 /\ IsTerminalCall(sc[i]) => (i = Len(sc) /\ sc[i].payload.drop = TRUE)
    /\ \A k \in 1..Len(evals) :
          IsOk(evals[k].result) =>
             \A s \in {evals[k].conn, evals[k].conn2} \ {""} : TerminalCount(s) = 1

C3_Witness ==
    \E k \in 1..Len(evals) :
       /\ IsOk(evals[k].result)
       /\ evals[k].conn2 # ""
       /\ evals[k].conn2 # evals[k].conn
       /\ Len(SessionCalls(evals[k].conn)) = 2
       /\ Len(SessionCalls(evals[k].conn2)) >= 3
       /\ TerminalCount(evals[k].conn) = 1
       /\ TerminalCount(evals[k].conn2) = 1

(***************************************************************************)
(* C4 (as stated): in two-pass execution with at least one survivor of     *)
(* pass 1, a second session distinct from the first receives exactly: the  *)
(* start tool, a synthetic property-equality FilterItems tool with no      *)
(* condition on id, every remaining tool in order, and the final action.   *)
(***************************************************************************)
C4_SecondSessionSequence ==
    \A k \in 1..Len(evals) :
       (IsOk(evals[k].result) /\ TwoPassEval(k) /\ Pass1Collected(k)
          /\ Pass1Survivors(k) # << >>) =>
          LET e  == evals[k]
              c  == e.compiled[1]
              n  == Len(c.tools)
              s2 == SelectSeq(CallsOfEval(k), LAMBDA x : x.conn = e.conn2)
          IN  /\ e.conn2 # ""
              /\ e.conn2 # e.conn
              /\ Len(s2) = n + 2
              /\ s2[1].payload = c.tools[1]
              /\ IsSyntheticFilter(s2[2].payload)
              /\ \A j \in 2..n : s2[j + 1].payload = c.tools[j]
              /\ s2[n + 2].op = final_endpoint(c.final_action)
              /\ s2[n + 2].payload = final_payload(c.final_action)

(***************************************************************************)
(* C5 (as stated): a non-success response to any remote call of an         *)
(* evaluation makes the evaluation return an error that carries the status *)
(* and the body of that response, and no further call of that evaluation   *)
(* follows.                                                                *)
(***************************************************************************)
C5_NonSuccessAborts ==
    \A i \in 1..Len(calls) :
       (calls[i].ev >= 1 /\ calls[i].resp.sent /\ calls[i].resp.status # "200") =>
          /\ \A j \in (i + 1)..Len(calls) : calls[j].ev # calls[i].ev
          /\ IsErr(outcome)
          /\ outcome.err.kind = "TransportError"
          /\ outcome.err.status = Some(calls[i].resp.status)
          /\ outcome.err.body = Some(calls[i].resp.body.text)

(***************************************************************************)
(* C6 (as stated): in single-pass execution all tools go in compiled order *)
(* to the one supplied session, then the final action, and no other        *)
(* session is opened; the value returned is the final result unchanged     *)
(* when raw_id_filters is empty, and otherwise the array of the items of   *)
(* the final result array whose id is in raw_id_filters, in their order.   *)
(***************************************************************************)
C6_SinglePass ==
    \A k \in 1..Len(evals) :
       (IsOk(evals[k].result) /\ SinglePassEval(k)) =>
          LET e  == evals[k]
              c  == e.compiled[1]
              n  == Len(c.tools)
              cs == CallsOfEval(k)
          IN  /\ Len(cs) = n + 2
              /\ cs[1].op = "init"
              /\ e.conn2 = ""
              /\ \A j \in 1..n :
                    /\ IsToolCall(cs[j + 1])
                    /\ cs[j + 1].conn = e.conn
                    /\ cs[j + 1].payload = c.tools[j]
              /\ cs[n + 2].conn = e.conn
              /\ cs[n + 2].op = final_endpoint(c.final_action)
              /\ cs[n + 2].payload = final_payload(c.final_action)
              /\ LET final == cs[n + 2].resp.body.json[1]
                 IN  IF c.id_filters = << >>
                     THEN e.result.v = final
                     ELSE /\ final.t = "arr"
                          /\ e.result.v = JArr(SelectSeq(final.a,
                                LAMBDA it : HasListedId(it, c.id_filters)))

(***************************************************************************)
(* C7: in two-pass execution, when no item collected in pass 1 has an id   *)
(* in raw_id_filters, the evaluation returns the empty array, no second    *)
(* session is opened and no call follows the collect of pass 1.            *)
(***************************************************************************)
CompiledOfEval(k) ==
    IF k <= Len(evals) THEN evals[k].compiled
    ELSE IF compiled = Idle THEN None ELSE Some(compiled)

NoSurvivorEval(k) ==
    LET cs == CallsOfEval(k)
        c  == CompiledOfEval(k)
    IN  /\ IsSome(c)
        /\ c[1].id_filters # << >>
        /\ Len(c[1].tools) > 1
        /\ Len(cs) >= 3
        /\ cs[3].op = "collect"
        /\ is_success(cs[3].resp)
        /\ IsSome(cs[3].resp.body.json)
        /\ LET v == cs[3].resp.body.json[1]
           IN  v.t = "arr" =>
                  \A i \in 1..Len(v.a) : ~HasListedId(v.a[i], c[1].id_filters)

C7_NoSurvivorShortCircuit ==
    \A k \in 1..(Len(evals) + 1) :
       NoSurvivorEval(k) =>
          /\ k <= Len(evals)
          /\ evals[k].result = Ok(JArr(<< >>))
          /\ evals[k].conn2 = ""
          /\ Len(CallsOfEval(k)) = 3

C7_Witness ==
    \E k \in 1..Len(evals) :
       /\ NoSurvivorEval(k)
       /\ CallsOfEval(k)[3].resp.body.json[1] = JArr(<<ItemBob>>)
       /\ evals[k].result = Ok(JArr(<< >>))
       /\ pc = "done"

(***************************************************************************)
(* Reference constructions for the filter claims: the DNF of an AND / OR   *)
(* expression over property comparisons, built from the right, and the     *)
(* truth of an expression and of a DNF under an assignment of truth values *)
(* to the conditions.                                                      *)
(***************************************************************************)
IsConnective(e) == e.expr \in {"And", "Or"}

RECURSIVE OnlyComparisons(_)
OnlyComparisons(e) ==
    IF IsConnective(e)
    THEN \A i \in 1..Len(e.exprs) : OnlyComparisons(e.exprs[i])
    ELSE e \in Comparisons

RECURSIVE HasComparison(_)
HasComparison(e) ==
    IF IsConnective(e)
    THEN \E i \in 1..Len(e.exprs) : HasComparison(e.exprs[i])
    ELSE e \in Comparisons

RECURSIVE HasPathFilter(_)
HasPathFilter(e) ==
    IF IsConnective(e)
    THEN \E i \in 1..Len(e.exprs) : HasPathFilter(e.exprs[i])
    ELSE e \in PathFilters

RefOperator(op) ==
    CASE op = "Equal" -> "==" [] op = "GreaterThanOrEqual" -> ">="
      [] op = "LessThan" -> "<"
RefValue(e) ==
    CASE e.expr = "IntegerLiteral" -> VI32(e.i)
      [] e.expr = "BooleanLiteral" -> VBoolean(e.b)
RefCondition(cmp) ==
    [key |-> cmp.t.steps[1].fields[1].key,
     value |-> RefValue(cmp.t.steps[2].e),
     operator |-> Some(RefOperator(cmp.t.steps[2].op))]
Conditions == {RefCondition(cmp) : cmp \in Comparisons}

\* The cartesian product of two clause lists, clauses of the first outermost.
ClauseProduct(xs, ys) ==
    [idx \in 1..(Len(xs) * Len(ys)) |->
        xs[((idx - 1) \div Len(ys)) + 1] \o ys[((idx - 1) % Len(ys)) + 1]]

RECURSIVE RefDNF(_)
RECURSIVE RefOr(_)
RECURSIVE RefAnd(_)
RefOr(exprs) ==
    IF exprs = << >> THEN << >> ELSE RefDNF(Head(exprs)) \o RefOr(Tail(exprs))
RefAnd(exprs) ==
    IF exprs = << >> THEN << << >> >>
    ELSE ClauseProduct(RefDNF(Head(exprs)), RefAnd(Tail(exprs)))
RefDNF(e) ==
    CASE e.expr = "Or"  -> RefOr(e.exprs)
      [] e.expr = "And" -> RefAnd(e.exprs)
      [] OTHER          -> << <<RefCondition(e)>> >>

RECURSIVE ClauseCount(_)
RECURSIVE SumCounts(_)
RECURSIVE ProductCounts(_)
SumCounts(exprs) ==
    IF exprs = << >> THEN 0 ELSE ClauseCount(Head(exprs)) + SumCounts(Tail(exprs))
ProductCounts(exprs) ==
    IF exprs = << >> THEN 1 ELSE ClauseCount(Head(exprs)) * ProductCounts(Tail(exprs))
ClauseCount(e) ==
    CASE e.expr = "Or"  -> SumCounts(e.exprs)
      [] e.expr = "And" -> ProductCounts(e.exprs)
      [] OTHER          -> 1

RECURSIVE Truth(_, _)
Truth(e, asg) ==
    CASE e.expr = "Or"  -> \E i \in 1..Len(e.exprs) : Truth(e.exprs[i], asg)
      [] e.expr = "And" -> \A i \in 1..Len(e.exprs) : Truth(e.exprs[i], asg)
      [] OTHER          -> asg[RefCondition(e)]

DnfTruth(dnf, asg) ==
    \E i \in 1..Len(dnf) : \A j \in 1..Len(dnf[i]) : asg[dnf[i][j]]

(***************************************************************************)
(* C11: for an expression built from AND and OR over direct property       *)
(* comparisons the compiled DNF is the reference construction (one clause  *)
(* of one condition for a comparison, concatenation for OR, cartesian      *)
(* product for AND), so its clause count is the sum, respectively the      *)
(* product, of the sub-expressions' clause counts.                         *)
(***************************************************************************)
C11_DnfIsReference ==
    (pc = "filtered" /\ OnlyComparisons(query)) =>
        /\ IsOk(compiled)
        /\ compiled.v.properties = Some(RefDNF(query))
        /\ compiled.v.filter_traversals = None
        /\ Len(compiled.v.properties[1]) = ClauseCount(query)

C11_Witness ==
    /\ pc = "filtered"
    /\ OnlyComparisons(query)
    /\ query.expr = "And"
    /\ Len(query.exprs) = 2
    /\ query.exprs[1].expr = "Or" /\ Len(query.exprs[1].exprs) = 3
    /\ query.exprs[2].expr = "Or" /\ Len(query.exprs[2].exprs) = 2
    /\ IsOk(compiled)
    /\ Len(compiled.v.properties[1]) = 6

(***************************************************************************)
(* C12: for an expression built from nested AND and OR over property       *)
(* comparisons, under every assignment of truth values to the comparisons  *)
(* the expression is true exactly when some clause of the compiled DNF has *)
(* all its conditions true.                                                *)
(***************************************************************************)
C12_DnfEquivalent ==
    (pc = "filtered" /\ OnlyComparisons(query)) =>
        /\ IsOk(compiled)
        /\ IsSome(compiled.v.properties)
        /\ \A asg \in [Conditions -> BOOLEAN] :
              Truth(query, asg) <=> DnfTruth(compiled.v.properties[1], asg)

C12_Witness ==
    /\ pc = "filtered"
    /\ OnlyComparisons(query)
    /\ query.expr = "And"
    /\ \E i \in 1..Len(query.exprs) :
          /\ query.exprs[i].expr = "Or"
          /\ Len(query.exprs[i].exprs) = 2
          /\ query.exprs[i].exprs[1] # query.exprs[i].exprs[2]
    /\ \E i \in 1..Len(query.exprs) : query.exprs[i] \in Comparisons
    /\ IsOk(compiled)
    /\ \E asg \in [Conditions -> BOOLEAN] : Truth(query, asg)
    /\ \E asg \in [Conditions -> BOOLEAN] : ~Truth(query, asg)

(***************************************************************************)
(* C13 (as stated): an AND or OR that combines a property comparison with  *)
(* a sub-traversal filter is a compile error; no compiled filter carries   *)
(* both a property DNF and sub-traversal tools; no sub-expression is       *)
(* dropped from a compiled filter.                                         *)
(***************************************************************************)
C13_MixedKindsRejected ==
    pc = "filtered" =>
        /\ (IsConnective(query) /\ HasComparison(query) /\ HasPathFilter(query))
              => IsErr(compiled)
        /\ IsOk(compiled) =>
              ~(IsSome(compiled.v.properties) /\ IsSome(compiled.v.filter_traversals))
        /\ (IsOk(compiled) /\ HasPathFilter(query))
              => IsSome(compiled.v.filter_traversals)

(***************************************************************************)
(* Reference constructions for the tool-compiler claims.  The steps of the *)
(* traversal before its last step compile to "Before"; the claims about    *)
(* one step relate Before to the result of the whole traversal.            *)
(***************************************************************************)
LastStep == query.steps[Len(query.steps)]
Before ==
    map_traversal_to_tools(
        Traversal(query.start, SubSeq(query.steps, 1, Len(query.steps) - 1)),
        params_val)
Compiled(kinds) ==
    /\ pc = "compiled"
    /\ query.steps # << >>
    /\ LastStep \in kinds
    /\ IsOk(Before)

IsEdgeTool(tool) == tool.tool \in {"out_e_step", "in_e_step"}
EdgeTools(tools) == {j \in 1..Len(tools) : IsEdgeTool(tools[j])}
NearestEdgeTool(tools) == CHOOSE j \in EdgeTools(tools) : \A k \in EdgeTools(tools) : k <= j
OnlyFiltersAfter(tools, j) ==
    \A k \in (j + 1)..Len(tools) : tools[k].tool = "filter_items"
NodeTool(tool) ==
    [tool |-> IF tool.tool = "out_e_step" THEN "out_step" ELSE "in_step",
     edge_label |-> tool.edge_label, edge_type |-> "node", filter |-> tool.filter]
Fused(tools) ==
    [k \in 1..Len(tools) |->
        IF k = NearestEdgeTool(tools) THEN NodeTool(tools[k]) ELSE tools[k]]
MustFollowEdge ==
    Err(CompileError(
        "::ToN or ::FromN must follow an edge traversal step (like ::OutE or ::InE)"))

(***************************************************************************)
(* C14 (as stated): whenever a FromN / ToN step is compiled and an OutE or *)
(* InE tool exists earlier in the tool list, the nearest preceding one is  *)
(* rewritten in place into Out / In with its label and nested filter, and  *)
(* the list is otherwise unchanged and keeps its length.                   *)
(***************************************************************************)
C14_FusesNearestEdgeTool ==
    (Compiled(FusionSteps) /\ EdgeTools(Before.v.tools) # {}) =>
        /\ IsOk(compiled)
        /\ compiled.v.tools = Fused(Before.v.tools)

(***************************************************************************)
(* C14 (amended): a FromN / ToN step rewrites the nearest preceding OutE / *)
(* InE tool in place into Out / In, keeping label and nested filter, the   *)
(* length of the list and every other tool, exactly when only FilterItems  *)
(* tools were emitted after that edge tool; when any other tool was        *)
(* emitted after it the step is the "must follow an edge traversal step"   *)
(* error.                                                                  *)
(***************************************************************************)
C14_FusesAcrossFiltersOnly ==
    (Compiled(FusionSteps) /\ EdgeTools(Before.v.tools) # {}) =>
        IF OnlyFiltersAfter(Before.v.tools, NearestEdgeTool(Before.v.tools))
        THEN /\ IsOk(compiled)
             /\ compiled.v.tools = Fused(Before.v.tools)
             /\ Len(compiled.v.tools) = Len(Before.v.tools)
             /\ compiled.v.final_action = Before.v.final_action
             /\ compiled.v.id_filters = Before.v.id_filters
        ELSE compiled = MustFollowEdge

C14_Witness ==
    /\ pc = "compiled"
    /\ query.steps = <<GraphStep("OutE", "Likes"),
                       Where(Compare("age", "GreaterThan", IntegerLiteral(50))),
                       GraphStep("ToN", "")>>
    /\ IsOk(compiled)
    /\ Len(compiled.v.tools) = 3
    /\ compiled.v.tools[2] = OutStep("Likes", None)
    /\ compiled.v.tools[3].tool = "filter_items"

(***************************************************************************)
(* C15: a FromN / ToN step with no OutE / InE tool before it (directly     *)
(* after the start scan, after an Out step, after an already fused edge    *)
(* step) fails with the "::ToN or ::FromN must follow an edge traversal    *)
(* step" error, and the compilation returns no tool list.                  *)
(***************************************************************************)
C15_FusionWithoutEdgeTool ==
    (Compiled(FusionSteps) /\ EdgeTools(Before.v.tools) = {}) =>
        compiled = MustFollowEdge

C15_Witness ==
    /\ pc = "compiled"
    /\ query.steps = <<GraphStep("Out", "Follows"), GraphStep("FromN", "")>>
    /\ compiled = MustFollowEdge

(***************************************************************************)
(* C16 (as stated): a step whose kind is outside the supported set, an     *)
(* unsupported graph-step kind included, makes the compilation fail with   *)
(* an error that identifies the index of that step; it is never skipped.   *)
(***************************************************************************)
C16_UnsupportedStepIsError ==
    Compiled(UnsupportedSteps) =>
        /\ IsErr(compiled)
        /\ compiled.err.kind = "UnsupportedStep"
        /\ compiled.err.index = Len(query.steps) - 1

(***************************************************************************)
(* The final action the last terminal step of a step sequence stands for.  *)
(***************************************************************************)
IsTerminal(step) == step.step \in {"Range", "First", "Count", "Aggregate", "GroupBy"}
Terminals(steps) == {i \in 1..Len(steps) : IsTerminal(steps[i])}
LastTerminal(steps) == CHOOSE i \in Terminals(steps) : \A k \in Terminals(steps) : k <= i
WithoutTerminals(steps) == SelectSeq(steps, LAMBDA step : ~IsTerminal(step))

\* A range bound that evaluates to an integer: a literal, or an identifier
\* the parameter object binds to an integer.
IsIntegerBound(e, params) ==
    \/ e.expr = "IntegerLiteral"
    \/ e.expr = "Identifier" /\ e.name \in DOMAIN params /\ IsJInt(params[e.name])
IntegerBound(e, params) ==
    IF e.expr = "IntegerLiteral" THEN e.i ELSE params[e.name].n
Unsigned(i) == IF i >= 0 THEN i ELSE (2 ^ UsizeBits) + i

ActionOf(step, range) ==
    CASE step.step = "Range"     -> Collect(Some(range))
      [] step.step = "First"     -> Collect(Some(<<0, Some(1)>>))
      [] step.step = "Count"     -> Count
      [] step.step = "Aggregate" -> Aggregate(step.properties)
      [] step.step = "GroupBy"   -> GroupBy(step.properties)

LastWins(range(_)) ==
    /\ IF Terminals(query.steps) = {}
       THEN compiled.v.final_action = Collect(None)
       ELSE LET step == query.steps[LastTerminal(query.steps)]
            IN  compiled.v.final_action = ActionOf(step, range(step))
    /\ LET stripped == map_traversal_to_tools(
                           Traversal(query.start, WithoutTerminals(query.steps)),
                           params_val)
       IN  IsOk(stripped) /\ compiled.v.tools = stripped.v.tools

RangeAsWritten(step) ==
    <<IntegerBound(step.start, params_val), Some(IntegerBound(step.end, params_val))>>
RangeAsCast(step) ==
    <<IF IsIntegerBound(step.start, params_val)
      THEN Unsigned(IntegerBound(step.start, params_val)) ELSE 0,
      IF IsIntegerBound(step.end, params_val)
      THEN Some(Unsigned(IntegerBound(step.end, params_val))) ELSE None>>
IntegerRanges ==
    \A i \in 1..Len(query.steps) :
        query.steps[i].step = "Range" =>
            /\ IsIntegerBound(query.steps[i].start, params_val)
            /\ IsIntegerBound(query.steps[i].end, params_val)

IsTypedStart(start) == start.kind \in {"Node", "Edge", "Vector"}
ScanTool(start) ==
    IF start.kind = "Edge" THEN EFromType(start.type) ELSE NFromType(start.type)
IsLookup(id) == id.id = "ByIndex"
RawId(id, params) ==
    IF id.id = "Literal" THEN id.value[2] ELSE params[id.name].s
RawIds(ids, params) ==
    LET raw == SelectSeq(ids, LAMBDA id : ~IsLookup(id))
    IN  [i \in 1..Len(raw) |-> RawId(raw[i], params)]
Lookups(ids) == SelectSeq(ids, IsLookup)
IsEqualityFilter(tool, n) ==
    /\ tool.tool = "filter_items"
    /\ IsSome(tool.filter.properties)
    /\ Len(tool.filter.properties[1]) = 1
    /\ Len(tool.filter.properties[1][1]) = n
    /\ \A i \in 1..n : tool.filter.properties[1][1][i].operator = Some("==")
    /\ tool.filter.filter_traversals = None
StepsAlone ==
    map_traversal_to_tools(Traversal(AnonymousStart, query.steps), params_val)

(***************************************************************************)
(* C18 (as stated): for a Node / Edge / Vector start with ids, the literal *)
(* and parameter-bound ids are returned as raw id filters in source order  *)
(* and appear in no tool; indexed lookups produce one FilterItems tool of  *)
(* equality conditions right after the scan tool; with only literal or     *)
(* parameter ids and no steps the tool list is the scan tool alone.        *)
(***************************************************************************)
C18_StartIds ==
    (pc = "compiled" /\ IsTypedStart(query.start) /\ query.start.ids # << >>
        /\ IsOk(compiled)) =>
        LET ids     == query.start.ids
            tools   == compiled.v.tools
            lookups == Lookups(ids)
            first   == IF lookups = << >> THEN 1 ELSE 2
        IN  /\ compiled.v.id_filters = RawIds(ids, params_val)
            /\ tools[1] = ScanTool(query.start)
            /\ Len(tools) >= first
            /\ lookups # << >> => IsEqualityFilter(tools[2], Len(lookups))
            /\ SubSeq(tools, first + 1, Len(tools)) = StepsAlone.v.tools
            /\ (lookups = << >> /\ query.steps = << >>) => tools = <<ScanTool(query.start)>>

(***************************************************************************)
(* The parameter a step or a start-node id is bound to.                    *)
(***************************************************************************)
ParameterSteps ==
    { Where(Compare("age", "GreaterThanOrEqual", Identifier("min"))),
      ObjectStep(<<FieldIs("name", IdentifierField("who"))>>) }
StepParameter(step) ==
    IF step.step = "Where" THEN step.expr.t.steps[2].e.name
    ELSE step.fields[1].value.name
MissingIds(ids, params) ==
    SelectSeq(ids, LAMBDA id : id.id = "Identifier" /\ id.name \notin DOMAIN params)
MissingParameter(name) == Err([kind |-> "MissingParameter", name |-> name])

(***************************************************************************)
(* C19 (as stated): when the compilation has to resolve a parameter-bound  *)
(* identifier (a start-node id, the value of a WHERE comparison, the value *)
(* of an object-literal field) that the parameter object does not bind, it *)
(* fails with an error naming the missing parameter and returns no tool    *)
(* list; the identifier's name is never used as the value.                 *)
(***************************************************************************)
C19_MissingParameterIsError ==
    /\ (pc = "compiled" /\ IsTypedStart(query.start)
            /\ MissingIds(query.start.ids, params_val) # << >>) =>
          compiled = MissingParameter(MissingIds(query.start.ids, params_val)[1].name)
    /\ (Compiled(ParameterSteps) /\ StepParameter(LastStep) \notin DOMAIN params_val) =>
          compiled = MissingParameter(StepParameter(LastStep))

(***************************************************************************)
(* The tool a step stands for in the compiled tool list.                   *)
(***************************************************************************)
IsWalk(step) ==
    step.step \in {"Node", "Edge"} /\ step.gs.g \in {"Out", "In", "OutE", "InE"}
IsVectorSearch(step) ==
    step.step \in {"Node", "Edge"} /\ step.gs.g = "SearchVector"
EmitsStated(step) == IsWalk(step) \/ step.step \in {"Where", "OrderBy", "Object"}
EmitsTool(step) == EmitsStated(step) \/ IsVectorSearch(step)

\* An OutE / InE step stands for its edge tool, or for the node tool a later
\* FromN / ToN step turned it into.
ToolOfStep(step, tool) ==
    CASE IsWalk(step) ->
            \/ step.gs.g = "Out"  /\ tool = OutStep(step.gs.label, None)
            \/ step.gs.g = "In"   /\ tool = InStep(step.gs.label, None)
            \/ step.gs.g = "OutE" /\ tool \in {OutEStep(step.gs.label, None),
                                                OutStep(step.gs.label, None)}
            \/ step.gs.g = "InE"  /\ tool \in {InEStep(step.gs.label, None),
                                                InStep(step.gs.label, None)}
      [] IsVectorSearch(step) -> tool.tool \in {"search_vec", "search_vec_text"}
      [] step.step = "Where" ->
            /\ tool.tool = "filter_items"
            /\ tool.filter.filter_traversals = None
            /\ Len(tool.filter.properties[1]) = 1
            /\ Len(tool.filter.properties[1][1]) = 1
            /\ tool.filter.properties[1][1][1].key = step.expr.t.steps[1].fields[1].key
      [] step.step = "Object" -> IsEqualityFilter(tool, Len(step.fields))
      [] step.step = "OrderBy" -> tool.tool = "order_by" /\ tool.order = step.order

OneToolPerStep(emits(_)) ==
    LET emitting == SelectSeq(query.steps, emits)
        tools    == compiled.v.tools
    IN  /\ Len(tools) = 1 + Len(emitting)
        /\ tools[1] = ScanTool(query.start)
        /\ \A i \in 1..Len(emitting) : ToolOfStep(emitting[i], tools[i + 1])
        /\ query = TWhere =>
              tools = <<NFromType("User"),
                        FilterItems(FilterTraversal(
                            Some(<< <<FilterProperties("age", VI32(50), ">")>> >>),
                            None))>>

NoIds == IsTypedStart(query.start) /\ query.start.ids = << >>

C21_SearchToolOnlyFirst ==
    (pc = "compiled" /\ IsOk(compiled)) =>
        \A j \in 2..Len(compiled.v.tools) : ~is_search(compiled.v.tools[j])

(***************************************************************************)
(* Reference constructions for the normalizer claims.                      *)
(***************************************************************************)
Bookkeeping == {"out_edges", "in_edges", "vectors", "version"}

RECURSIVE NoBookkeeping(_)
NoBookkeeping(v) ==
    CASE v.t = "arr" -> \A i \in 1..Len(v.a) : NoBookkeeping(v.a[i])
      [] v.t = "obj" ->
            /\ DOMAIN v.o \cap Bookkeeping = {}
            /\ \A k \in DOMAIN v.o : NoBookkeeping(v.o[k])
      [] OTHER -> TRUE

HasProperties(v) ==
    v.t = "obj" /\ "properties" \in DOMAIN v.o /\ v.o["properties"].t = "obj"

(***************************************************************************)
(* C22 (as stated): normalize_value is idempotent on every JSON value,     *)
(* objects whose properties field has itself a properties field included:  *)
(* normalizing a normalized value gives the same value.                    *)
(***************************************************************************)
C22_NormalizeIdempotent ==
    pc = "renormalized" => outcome = exec_result

(***************************************************************************)
(* C23 (as stated): the output of normalize_value has no object, at any    *)
(* depth, with a key out_edges, in_edges, vectors or version; an object    *)
(* that had an object-valued properties field has the entries of that      *)
(* field merged into it and no properties key, and keeps its other fields  *)
(* that are not bookkeeping.                                               *)
(***************************************************************************)
C23_FlattenedAndStripped ==
    pc = "normalized" =>
        /\ NoBookkeeping(exec_result)
        /\ HasProperties(query) =>
              LET props == query.o["properties"].o IN
              /\ "properties" \notin DOMAIN exec_result.o
              /\ \A k \in DOMAIN props \ Bookkeeping :
                    k \in DOMAIN exec_result.o
                    /\ exec_result.o[k] = normalize_value(props[k])
              /\ \A k \in DOMAIN query.o \ (Bookkeeping \cup {"properties"}) :
                    k \in DOMAIN exec_result.o

(***************************************************************************)
(* Reference constructions for the claims on the remote calls of one       *)
(* evaluation of execute_dynamic_hql.                                      *)
(***************************************************************************)
NamedWithParameters == query.name # "ExplorerTmp" /\ Len(query.parameters) >= 1

IsCompiledCall(c) == c.op = "compiled_query"

\* The compiled-query call is the first call or no call at all, it carries
\* the parameter object, and a query that is not named with parameters makes
\* no such call.
CompiledCallFirst ==
    /\ \A i \in 2..Len(calls) : ~IsCompiledCall(calls[i])
    /\ (NamedWithParameters /\ calls # << >>) =>
          /\ IsCompiledCall(calls[1])
          /\ calls[1].payload = [name |-> query.name, params |-> params_val]
    /\ ~NamedWithParameters => \A i \in 1..Len(calls) : ~IsCompiledCall(calls[i])

\* A compiled-query call answered with success and a JSON body ends the
\* evaluation with the normalized body and is the only call.
CompiledCallReturns ==
    (calls # << >> /\ IsCompiledCall(calls[1]) /\ is_success(calls[1].resp)
        /\ IsSome(calls[1].resp.body.json)) =>
            /\ Len(calls) = 1
            /\ pc = "done"
            /\ outcome = Ok(normalize_value(calls[1].resp.body.json[1]))

(***************************************************************************)
(* C24 (as stated): for a query named other than the wrapper with at least *)
(* one declared parameter the first remote call is the compiled-query call *)
(* carrying the parameter object; if it succeeds its normalized body is    *)
(* returned and no session is opened; a session init or tool call follows  *)
(* only a compiled-query call that ended in a non-success status or a      *)
(* transport error; other queries never make the compiled-query call.      *)
(***************************************************************************)
C24_FallThroughOnFailureOnly ==
    /\ CompiledCallFirst
    /\ CompiledCallReturns
    /\ (Len(calls) >= 2 /\ IsCompiledCall(calls[1])) => ~is_success(calls[1].resp)

(***************************************************************************)
(* C24 (amended): as stated, except that a session init or tool call also  *)
(* follows a compiled-query call answered with a success status whose body *)
(* is not JSON.                                                            *)
(***************************************************************************)
C24_FallThroughUnlessJsonSuccess ==
    /\ CompiledCallFirst
    /\ CompiledCallReturns
    /\ (Len(calls) >= 2 /\ IsCompiledCall(calls[1])) =>
          (~is_success(calls[1].resp) \/ ~IsSome(calls[1].resp.body.json))

C24_Witness ==
    /\ pc = "done"
    /\ NamedWithParameters
    /\ Len(calls) >= 3
    /\ IsCompiledCall(calls[1])
    /\ is_success(calls[1].resp)
    /\ calls[2].op = "init"
    /\ IsOk(outcome)

\* The calls made for the evaluation of ordinal e
CallsOf(e) == {i \in 1..Len(calls) : calls[i].ev = e}

(***************************************************************************)
(* C25: with several return variables, the calls of each evaluated         *)
(* variable start with a session init of its own, no session id that       *)
(* received a call for one variable receives a call for another, and the   *)
(* calls of different variables never interleave.                          *)
(***************************************************************************)
C25_SessionsIsolated ==
    /\ \A i \in 1..Len(calls) :
          (calls[i].ev >= 1 /\ (i = 1 \/ calls[i - 1].ev # calls[i].ev)) =>
              calls[i].op = "init"
    /\ \A i, j \in 1..Len(calls) :
          (calls[i].conn # "" /\ calls[i].conn = calls[j].conn) =>
              calls[i].ev = calls[j].ev
    /\ \A i, j \in 1..Len(calls) : i < j => calls[i].ev <= calls[j].ev

C25_Witness ==
    /\ pc = "done"
    /\ IsOk(outcome)
    /\ Len(evals) = 2
    /\ evals[1].var # evals[2].var
    /\ \E i \in CallsOf(1), j \in CallsOf(2) :
          calls[i].conn # "" /\ calls[j].conn # "" /\ calls[i].conn # calls[j].conn

\* The remote's reading of a property filter: an item passes when each
\* listed key is a field of the item with the listed scalar.
Satisfies(item, tool) ==
    \E i \in 1..Len(tool.filter.properties[1]) :
       \A j \in 1..Len(tool.filter.properties[1][i]) :
          LET p == tool.filter.properties[1][i][j]
          IN  /\ item.t = "obj"
              /\ p.key \in DOMAIN item.o
              /\ field_scalar(item.o[p.key]) = Some(p.value)

\* Evaluation k went through both passes.
BothPasses(k) ==
    /\ TwoPassEval(k)
    /\ Pass1Collected(k)
    /\ Pass1Survivors(k) # << >>
    /\ IsOk(evals[k].result)

\* The start items the remaining tools of pass 2 operate on: those of the
\* start tool, narrowed by the synthetic filter when one was sent.
Pass2StartItems(k) ==
    IF IsSome(evals[k].prop_filter)
    THEN SelectSeq(Pass1Items(k), LAMBDA it : Satisfies(it, evals[k].prop_filter[1]))
    ELSE Pass1Items(k)

Range(s) == {s[i] : i \in 1..Len(s)}

(***************************************************************************)
(* C26 (as stated): in two-pass execution the start items the remaining    *)
(* tools operate on in the second session are exactly the items whose id   *)
(* is among the raw id filters: the synthetic filter selects no other item *)
(* and loses none.                                                         *)
(***************************************************************************)
C26_SecondPassOnListedIds ==
    \A k \in 1..Len(evals) :
        BothPasses(k) => Range(Pass2StartItems(k)) = Range(Pass1Survivors(k))

\* What the caller receives holds the result stored for a variable.
Delivered(name) ==
    \/ IsOk(outcome) /\ outcome.v.t = "obj" /\ name \in DOMAIN outcome.v.o
    \/ IsErr(outcome) /\ "partial" \in DOMAIN outcome.err
          /\ name \in DOMAIN outcome.err.partial

(***************************************************************************)
(* C27 (as stated): when the evaluation of one return variable of a query  *)
(* with several fails with a transport error, only that evaluation is      *)
(* aborted: the call that failed is the last call and no call of an        *)
(* evaluation failed before it, and the results of the variables that      *)
(* completed before it are not discarded, the caller still obtains them.   *)
(***************************************************************************)
C27_EarlierResultsKept ==
    (pc = "done" /\ IsErr(outcome) /\ calls # << >>
        /\ ~calls[Len(calls)].resp.sent) =>
            /\ \A i \in 1..(Len(calls) - 1) : calls[i].ev >= 1 => calls[i].resp.sent
            /\ \A name \in DOMAIN final_map : Delivered(name)

\* The evaluations that have made calls, and the number of tools compiled for
\* an evaluation (one for a search variable).
Evaluations == {calls[i].ev : i \in 1..Len(calls)} \ {0}
TerminalOps == {"collect", "aggregate_by", "group_by"}
ToolOps == {"tool_call", "search_keyword", "search_vector", "search_vector_text"}
CompiledTools(e) ==
    IF e <= Len(evals)
    THEN IF IsSome(evals[e].compiled) THEN Len(evals[e].compiled[1].tools) ELSE 1
    ELSE IF compiled = Idle THEN 1 ELSE Len(compiled.tools)
CallsIn(e, conn, ops) ==
    Cardinality({i \in CallsOf(e) : calls[i].conn = conn /\ calls[i].op \in ops})

\* Per return variable: at most two session inits; per session each compiled
\* tool at most once and one synthetic filter, and at most one terminal call;
\* no call after a call of the evaluation that ended in a request error.
CallsBounded ==
    /\ \A e \in Evaluations :
          /\ CallsIn(e, "", {"init"}) <= 2
          /\ \A conn \in Sessions :
                /\ CallsIn(e, conn, ToolOps) <= CompiledTools(e) + 1
                /\ CallsIn(e, conn, TerminalOps) <= 1
    /\ \A i \in 1..(Len(calls) - 1) : calls[i].ev >= 1 => calls[i].resp.sent

\* Every remote call returns a response or a request error (the client's
\* timeout, commands/hql.rs line 171), so a step that is possible is taken.
SpecLive == Spec /\ WF_vars(Next)

(***************************************************************************)
(* C28: provided every remote call returns a response or a request error,  *)
(* every evaluation eventually returns a result or an error, and for each  *)
(* return variable the calls are bounded: at most two session inits, per   *)
(* session each compiled tool at most once plus one synthetic filter and   *)
(* at most one terminal call, and nothing after a call that failed.        *)
(***************************************************************************)
C28_Terminates ==
    /\ []CallsBounded
    /\ <>(pc = "done" /\ (IsOk(outcome) \/ IsErr(outcome)))

C28_Witness ==
    /\ pc = "done"
    /\ IsOk(outcome)
    /\ \E e \in Evaluations :
          /\ CallsIn(e, "", {"init"}) = 2
          /\ \E conn \in Sessions :
                CallsIn(e, conn, ToolOps) = CompiledTools(e) + 1

(***************************************************************************)
(* C29 (as stated): for a fixed query and fixed results of the remote, the *)
(* value execute_dynamic_hql returns, which variables appear in it and the *)
(* value of each, is the same for every order in which the shuffled return *)
(* variables are evaluated, the implicit unnamed result being one of       *)
(* several return variables included.                                      *)
(***************************************************************************)
C29_OrderIndependent ==
    pc = "second_order" => outcome = exec_result

\* The names the query returns, and those of them that have neither a
\* traversal assignment nor a search tool.
ReturnedNames ==
    {query.return_values[i].expr.name :
        i \in {j \in 1..Len(query.return_values) :
                  /\ query.return_values[j].ret = "Expression"
                  /\ query.return_values[j].expr.expr = "Identifier"}}
Unassigned(name) ==
    name \notin DOMAIN variable_assignments \cup DOMAIN variable_search_tools
Skipped == {name \in ReturnedNames : pc # "start" /\ Unassigned(name)}

\* A skipped variable has no evaluation, no stored result and no entry in the
\* returned object; when the query ends with a result the other returned
\* variables were all evaluated.
SkippedLeftOut ==
    \A name \in Skipped :
        /\ \A k \in 1..Len(evals) : evals[k].var # name
        /\ name \notin DOMAIN final_map
        /\ (pc = "done" /\ IsOk(outcome)) =>
              /\ outcome.v.t = "obj" => name \notin DOMAIN outcome.v.o
              /\ \A other \in ReturnedNames \ Skipped :
                    \E k \in 1..Len(evals) : evals[k].var = other

\* The step of the loop on a skipped variable goes on to the next variable
\* and changes nothing else: no session, no call, no error.
SkipStep ==
    (pc = "loop" /\ return_vars # << >> /\ Unassigned(Head(return_vars))) =>
        /\ pc' = "loop"
        /\ return_vars' = Tail(return_vars)
        /\ UNCHANGED <<calls, evals, final_map, outcome, next_conn>>

(***************************************************************************)
(* C30: a return variable that has neither a traversal assignment nor a    *)
(* search tool is skipped without error: no session is opened and no       *)
(* remote call made for it, it is absent from the result object, and the   *)
(* remaining return variables are still evaluated.                         *)
(***************************************************************************)
C30_UnassignedSkipped ==
    /\ []SkippedLeftOut
    /\ [][SkipStep]_vars

C30_Witness ==
    /\ pc = "done"
    /\ IsOk(outcome)
    /\ Skipped # {}
    /\ \E k \in 1..Len(evals) : evals[k].var \in ReturnedNames \ Skipped
    /\ Len(calls) >= 3

====
